---- MODULE Spec2Model ----
(***************************************************************************)
(* EnhancedVSTHost: the plugin-chain host (EnhancedVSTHost.cpp), the       *)
(* plugin instance wrapper (PluginInstance.cpp) and the in-process plugin  *)
(* scan (PluginScanner.cpp), the WASAPI engine (AudioEngines.cpp), the     *)
(* 32-bit bridge and the error logger (HelperComponents.cpp).              *)
(*                                                                         *)
(* The specifications share one set of variables.  The two for the host:   *)
(*   Spec      starts from the freshly constructed host.  On this path     *)
(*             loadPlugin builds its descriptor with scanPluginInProcess,  *)
(*             which only ever yields the types VST3 and Unknown, and      *)
(*             PluginInstance::load succeeds for neither, so the instance  *)
(*             map stays empty.                                            *)
(*   SpecHost  starts from every well-formed host state (instances that    *)
(*             completed loading, in any post-load lifecycle state, and    *)
(*             any duplicate-free chain over them).  It is the inductive   *)
(*             step for the chain and processing code, whose cases the     *)
(*             freshly constructed host never reaches.                     *)
(* The others (SpecLoad, SpecAudio, SpecInstance, SpecScan, SpecScanHost,  *)
(* SpecReap, SpecWorker, SpecBridge, SpecBridgeHost, SpecLog, SpecEngine,  *)
(* SpecRender, SpecAudioControl, SpecShutdown, SpecCrash) drive one        *)
(* component or one operation each and are described where they are        *)
(* defined.                                                                *)
(***************************************************************************)
EXTENDS Integers, Sequences, FiniteSets, TLC

\* ------------------------------------------------------------------ bounds
\* plugin IDs that a well-formed host state of SpecHost may hold
NumIds == 2
\* distinct non-silent sample values
MaxSample == 1

\* candidate files of one scanned directory
MaxFiles == 3
\* directories that one scanPlugins call is given
MaxSearchPaths == 2
\* lines of one scan worker's output
MaxLines == 3
\* command lines written to the bridge's command pipe in one behaviour
MaxCommands == 3
\* std::exceptions that escape from processReplacing in one behaviour
MaxCrashes == 1
\* candidate files of the directory that the sweeps are followed in
MaxCandidates == 11
\* scan jobs in activeJobs when a scan begins
MaxJobs == 2
\* logError calls in one behaviour
MaxLogged == 1002

\* ------------------------------------------------------- program constants
\* EVH::MAX_PLUGIN_SCAN_TIME_MS
MAX_PLUGIN_SCAN_TIME_MS == 5000
\* "if (current % 10 == 0)" in scanDirectory
ReapEvery == 10
\* "while (recentErrors.size() > 1000)" in ErrorLogger::logError
MaxRecentErrors == 1000
\* the audio callback processes exactly two channels
NumChannels == 2
\* channel counts that scanPluginInProcess puts in every descriptor
ScanNumInputs == 2
ScanNumOutputs == 2
\* std::atomic<int> nextPluginId{1}
FirstPluginId == 1

VARIABLES
    loadedPlugins,      \* std::unordered_map<int, unique_ptr<PluginInstance>>
    pluginChain,        \* std::vector<int>
    nextPluginId,       \* std::atomic<int>
    blacklistedPlugins, \* std::unordered_set<std::wstring>
    audioRunning,       \* std::atomic<bool>
    pluginMutex,        \* "free", or the thread that holds it
    rtpc,               \* position of the real-time thread in the audio callback
    rtidx,              \* position of the range-for over pluginChain
    outputs,            \* the callback's output buffers
    cycleIn,            \* the inputs handed to the running / last callback
    calls,              \* history: calls into plugin code made by this cycle
    lastCall,           \* history: the latest call into plugin code of this cycle
    visited,            \* history: chain IDs the loop of this cycle has looked at
    faulted,            \* history: IDs whose plugin code raised a trapped fault
    crashLog,           \* history: crashCb(pluginId, pluginName) invocations
    midCycleMutation,   \* history: a control-thread mutation landed inside a cycle
    lastOp,             \* history: last control-thread operation and its result
    audioThread,        \* WASAPIEngine::audioThread: "none", "running", "exited"
    shouldStop,         \* WASAPIEngine::shouldStop
    ctlpc,              \* position of the thread that starts and stops audio
    audioEngine,        \* EnhancedVSTHost::audioEngine is not null
    deviceEnumerator,   \* WASAPIEngine::deviceEnumerator is not null
    audioClient,        \* WASAPIEngine::audioClient is not null
    clientStarted,      \* the stream of audioClient is started
    wasRunning,         \* the local wasRunning of WASAPIEngine::selectDevice
    activeJobs,         \* PluginScanner::activeJobs
    pluginFiles,        \* history: the candidates of the latest scanDirectory
    onPluginFound,      \* history: descriptors passed to onPluginFound by it
    onProgress,         \* history: its onProgress(current, total, path) calls
    scanEvents,         \* history: its callbacks and scans in the order made
    foundPlugins,       \* history: foundPlugins of the latest scanPlugins
    scanResult,         \* history: the latest readScanResult call
    bridgeProcess,      \* PluginBridge32::bridgeProcess: "null" or "open"
    commandPipe,        \* PluginBridge32::commandPipe is not null
    dataPipe,           \* PluginBridge32::dataPipe is not null
    bridgeMutex,        \* PluginBridge32::bridgeMutex: "free" or its holder
    helper,             \* the process behind bridgeProcess: "none", "running", "exited"
    cmdPipe,            \* command lines written and not yet read by the helper
    respPipe,           \* response lines written and not yet read by the host
    bpc,                \* position of each calling thread inside the bridge
    sent,               \* history: number of command lines written so far
    bcall,              \* history: the latest bridge call of each thread
    answers,            \* history: the helper's answer to each command line
    overlap,            \* history: a command was written inside another request
    orphaned,           \* history: initialize() replaced handles that were open
    protocolKept,       \* history: the helper answered every command it read
    hostpc,             \* position of the control thread in EnhancedVSTHost::shutdown
    currentDriverType,  \* EnhancedVSTHost::currentDriverType
    render,             \* the audio thread's loop body and its device buffer
    logger,             \* ErrorLogger::recentErrors and the history of its calls
    reaper              \* history: the sweeps of the last scanDirectory call

vars == <<loadedPlugins, pluginChain, nextPluginId, blacklistedPlugins,
          audioRunning, pluginMutex, rtpc, rtidx, outputs, cycleIn, calls,
          lastCall, visited, faulted, crashLog, midCycleMutation, lastOp,
          audioThread, shouldStop, ctlpc,
          audioEngine, deviceEnumerator, audioClient, clientStarted, wasRunning,
          activeJobs, pluginFiles, onPluginFound, onProgress, scanEvents,
          foundPlugins, scanResult,
          bridgeProcess, commandPipe, dataPipe, bridgeMutex, helper, cmdPipe,
          respPipe, bpc, sent, bcall, answers, overlap, orphaned, protocolKept,
          hostpc, currentDriverType, render, logger, reaper>>

auxVars == <<hostpc, currentDriverType, render, logger, reaper>>
engineVars == <<audioThread, shouldStop, ctlpc>>
clientVars == <<audioEngine, deviceEnumerator, audioClient, clientStarted, wasRunning>>
scanVars == <<activeJobs, pluginFiles, onPluginFound, onProgress, scanEvents,
              foundPlugins, scanResult>>
bridgeVars == <<bridgeProcess, commandPipe, dataPipe, bridgeMutex, helper, cmdPipe,
                respPipe, bpc, sent, bcall, answers, overlap, orphaned, protocolKept>>
\* everything outside PluginBridge32
nonBridgeVars == <<loadedPlugins, pluginChain, nextPluginId, blacklistedPlugins,
                   audioRunning, pluginMutex, rtpc, rtidx, outputs, cycleIn, calls,
                   lastCall, visited, faulted, crashLog, midCycleMutation, lastOp,
                   engineVars, clientVars, scanVars, auxVars>>

hostVars == <<loadedPlugins, pluginChain, nextPluginId>>
rtVars == <<rtpc, rtidx, outputs, cycleIn, calls, lastCall, visited, faulted, crashLog>>

\* ------------------------------------------------------------ environment
\* Candidate files: name, extension, whether the file exists and whether
\* LoadLibraryExW(..., LOAD_LIBRARY_AS_DATAFILE) accepts it.
Paths ==
    { [name |-> "reverb",  ext |-> ".dll",  exists |-> TRUE,  image |-> TRUE],
      [name |-> "delay",   ext |-> ".vst3", exists |-> TRUE,  image |-> TRUE],
      [name |-> "broken",  ext |-> ".dll",  exists |-> TRUE,  image |-> FALSE],
      [name |-> "absent",  ext |-> ".dll",  exists |-> FALSE, image |-> FALSE],
      [name |-> "notes",   ext |-> ".txt",  exists |-> TRUE,  image |-> FALSE] }

Samples == 0..MaxSample
Channels == 1..NumChannels
\* one frame per channel: a buffer is the sample of each channel
Buffers == [Channels -> Samples]
NullChannel == -1
\* const float** inputs: a channel pointer may be null
InputBuffers == [Channels -> Samples \cup {NullChannel}]
Silence == [ch \in Channels |-> 0]

PluginState == {"Unloaded", "Loading", "Loaded", "Active", "Bypassed", "Error", "Crashed"}
PluginType == {"VST2", "VST3", "Unknown"}

\* what the native module does when PluginInstance::loadVST2 opens and calls
\* it: "fault" is a fault before the AEffect is stored (in the entry point),
\* "faultOpen" one in a dispatcher call after it is stored
LoadOutcomes == {"ok", "fail", "fault", "faultOpen"}

\* ------------------------------------------------------------ PluginScanner
\* PluginScanner::scanPluginInProcess: the descriptor and the return value.
scanPluginInProcess(path) ==
    LET base == [path |-> path, name |-> "", type |-> "Unknown",
                 numInputs |-> 0, numOutputs |-> 0, validated |-> FALSE]
        typed == [base EXCEPT !.type = IF path.ext = ".vst3" THEN "VST3" ELSE "Unknown"]
        filled == [typed EXCEPT !.name = path.name,
                                !.numInputs = ScanNumInputs,
                                !.numOutputs = ScanNumOutputs]
    IN  IF path.ext \notin {".vst3", ".dll"}
        THEN [ok |-> FALSE, info |-> base]
        ELSE IF path.exists /\ path.image
             THEN [ok |-> TRUE, info |-> [filled EXCEPT !.validated = TRUE]]
             ELSE [ok |-> FALSE, info |-> filled]

\* ----------------------------------------------------------- PluginInstance
\* PluginInstance::PluginInstance(info) with the header's member initialisers
PluginInstance(info) ==
    [info |-> info, state |-> "Unloaded", bypassed |-> FALSE, effect |-> FALSE,
     editor |-> FALSE]

\* PluginInstance::loadVST3: "would be implemented here", returns false
loadVST3 == FALSE

\* load without the test of the state
PluginInstance_load_NoGuard(inst, env) ==
    IF inst.info.type = "VST2"
    THEN IF env = "ok"
         THEN [ret |-> TRUE, inst |-> [inst EXCEPT !.state = "Loaded", !.effect = TRUE]]
         ELSE [ret |-> FALSE,
               inst |-> [inst EXCEPT !.state = "Error",
                                     !.effect = (env = "faultOpen")]]
    ELSE IF inst.info.type = "VST3"
         THEN [ret |-> loadVST3,
               inst |-> [inst EXCEPT !.state = IF loadVST3 THEN "Loaded" ELSE "Error"]]
         ELSE [ret |-> FALSE, inst |-> [inst EXCEPT !.state = "Error"]]

\* PluginInstance::load; env is what the native module does under loadVST2
PluginInstance_load(inst, env) ==
    IF inst.state # "Unloaded"
    THEN [ret |-> FALSE, inst |-> inst]
    ELSE IF inst.info.type = "VST2"
         THEN IF env = "ok"
              THEN [ret |-> TRUE, inst |-> [inst EXCEPT !.state = "Loaded", !.effect = TRUE]]
              ELSE [ret |-> FALSE,
                    inst |-> [inst EXCEPT !.state = "Error",
                                          !.effect = (env = "faultOpen")]]
         ELSE IF inst.info.type = "VST3"
              THEN [ret |-> loadVST3,
                    inst |-> [inst EXCEPT !.state = IF loadVST3 THEN "Loaded" ELSE "Error"]]
              ELSE [ret |-> FALSE, inst |-> [inst EXCEPT !.state = "Error"]]

\* PluginInstance::closeEditor; fault: effEditClose faults.  Nothing traps
\* the fault, so it leaves the method (escaped) before the window is destroyed
closeEditor(inst, fault) ==
    IF ~inst.editor
    THEN [inst |-> inst, called |-> FALSE, escaped |-> FALSE]
    ELSE IF inst.effect /\ fault
         THEN [inst |-> inst, called |-> TRUE, escaped |-> TRUE]
         ELSE [inst |-> [inst EXCEPT !.editor = FALSE],
               called |-> inst.effect, escaped |-> FALSE]

\* PluginInstance::openEditor; every descriptor the scan builds has
\* hasCustomEditor.  windowOk: CreateWindowExW returns a window; fault: a
\* dispatcher call of the plugin faults, with nothing to trap it
openEditor(inst, windowOk, fault) ==
    IF inst.editor \/ ~inst.effect
    THEN [inst |-> inst, called |-> FALSE, escaped |-> FALSE]
    ELSE [inst |-> [inst EXCEPT !.editor = windowOk],
          called |-> windowOk, escaped |-> windowOk /\ fault]

\* PluginInstance::unload; editFault: effEditClose faults (outside the __try),
\* cleanupFault: effMainsChanged / effClose / FreeLibrary faults (inside it)
PluginInstance_unload(inst, editFault, cleanupFault) ==
    IF inst.state = "Unloaded"
    THEN [inst |-> inst, called |-> FALSE, escaped |-> FALSE]
    ELSE IF closeEditor(inst, editFault).escaped
         THEN closeEditor(inst, editFault)
         ELSE [inst |-> [inst EXCEPT !.state = "Unloaded", !.effect = FALSE,
                                     !.editor = FALSE],
               called |-> inst.effect, escaped |-> FALSE]

\* PluginInstance::suspend; fault: the unprotected effMainsChanged call faults
suspend(inst, fault) ==
    IF inst.effect /\ fault
    THEN [inst |-> inst, called |-> TRUE, escaped |-> TRUE]
    ELSE [inst |-> [inst EXCEPT !.state = "Loaded"],
          called |-> inst.effect, escaped |-> FALSE]

\* PluginInstance::resume
resume(inst, fault) ==
    IF inst.effect /\ fault
    THEN [inst |-> inst, called |-> TRUE, escaped |-> TRUE]
    ELSE [inst |-> [inst EXCEPT !.state = "Active"],
          called |-> inst.effect, escaped |-> FALSE]

\* PluginInstance::setBypass
setBypass(inst, bypass) == [inst EXCEPT !.bypassed = bypass]

\* the copy loop without its zero-fill branch
PassThrough_NoZeroFill(info, in, out, aliased) ==
    [ch \in Channels |->
        IF ch - 1 < info.numOutputs /\ ch - 1 < info.numInputs /\ ~aliased
        THEN in[ch] ELSE out[ch]]

\* the copy / zero-fill loop of processReplacing (both occurrences); in is
\* what the input pointers show when the loop runs, aliased says that
\* inputs[ch] == outputs[ch]
PassThrough(info, in, out, aliased) ==
    [ch \in Channels |->
        IF ch - 1 < info.numOutputs
        THEN IF ch - 1 < info.numInputs /\ ~aliased THEN in[ch]
             ELSE IF ch - 1 >= info.numInputs THEN 0
             ELSE out[ch]
        ELSE out[ch]]

\* processReplacing that tests the bypass flag only and not the state
processReplacing_BypassOnly(inst, in, out, aliased, w, fault) ==
    IF inst.bypassed
    THEN [inst |-> inst, out |-> PassThrough(inst.info, in, out, aliased),
          called |-> FALSE, trapped |-> FALSE]
    ELSE IF inst.effect
         THEN IF fault
              THEN [inst |-> [inst EXCEPT !.state = "Crashed"],
                    out |-> PassThrough(inst.info, IF aliased THEN w ELSE in, w, aliased),
                    called |-> TRUE, trapped |-> TRUE]
              ELSE [inst |-> inst, out |-> w, called |-> TRUE, trapped |-> FALSE]
         ELSE [inst |-> inst, out |-> out, called |-> FALSE, trapped |-> FALSE]

\* PluginInstance::processReplacing.  w is what the plugin's routine has
\* written to the output buffers when it returns or faults, fault whether it
\* faults.  called: the plugin's routine was entered.
processReplacing(inst, in, out, aliased, w, fault) ==
    IF inst.state # "Active" \/ inst.bypassed
    THEN [inst |-> inst, out |-> PassThrough(inst.info, in, out, aliased),
          called |-> FALSE, trapped |-> FALSE]
    ELSE IF inst.effect
         THEN IF fault
              THEN [inst |-> [inst EXCEPT !.state = "Crashed"],
                    out |-> PassThrough(inst.info, IF aliased THEN w ELSE in, w, aliased),
                    called |-> TRUE, trapped |-> TRUE]
              ELSE [inst |-> inst, out |-> w, called |-> TRUE, trapped |-> FALSE]
         ELSE [inst |-> inst, out |-> out, called |-> FALSE, trapped |-> FALSE]

\* PluginInstance::process: as processReplacing, with copy loops that do not
\* compare the pointers
process(inst, in, out, w, fault) ==
    IF inst.state # "Active" \/ inst.bypassed
    THEN [inst |-> inst, out |-> PassThrough(inst.info, in, out, FALSE),
          called |-> FALSE, trapped |-> FALSE]
    ELSE IF inst.effect
         THEN IF fault
              THEN [inst |-> [inst EXCEPT !.state = "Crashed"],
                    out |-> PassThrough(inst.info, in, w, FALSE),
                    called |-> TRUE, trapped |-> TRUE]
              ELSE [inst |-> inst, out |-> w, called |-> TRUE, trapped |-> FALSE]
         ELSE [inst |-> inst, out |-> out, called |-> FALSE, trapped |-> FALSE]

\* whether a call of processReplacing lets a std::exception escape: the
\* __except filter takes every fault of the plugin's routine, and the copy
\* loops and the uncontended processMutex raise nothing
processReplacingThrows(inst) == {FALSE}

\* ---------------------------------------------------------- EnhancedVSTHost
\* a blacklist test that never finds the path
isBlacklisted_Never(path) == FALSE

\* EnhancedVSTHost::isBlacklisted
isBlacklisted(path) == path \in blacklistedPlugins

\* EnhancedVSTHost::validatePlugin
validatePlugin(path) ==
    /\ path.exists
    /\ path.ext \in {".dll", ".vst3"}
    /\ path.image

\* an operation that does not take the lock
TryLock_Missing == TRUE

\* std::lock_guard<std::mutex> lock(pluginMutex): the holder proceeds once
\* the mutex is free
TryLock == pluginMutex = "free"

\* a control-thread operation that changed the map, the chain or a bypass flag
Mutated(changed) ==
    midCycleMutation' = (midCycleMutation \/ (changed /\ rtpc # "idle"))

NoPath == [name |-> "", ext |-> "", exists |-> FALSE, image |-> FALSE]
NoOp == [op |-> "none", path |-> NoPath, ret |-> FALSE, constructed |-> FALSE,
         blacklisted |-> FALSE, hit |-> FALSE,
         \* for a call of a PluginInstance method: the instance before the
         \* call, the argument, whether plugin code was entered, whether a
         \* fault left the method, and the buffers before the call
         was |-> "Unloaded", wasBypassed |-> FALSE, wasEffect |-> FALSE,
         arg |-> "", called |-> FALSE, escaped |-> FALSE,
         in |-> Silence, pre |-> Silence,
         \* for startAudio and the methods of the audio engine: the results
         \* of the engine's initialize() and of audioClient->Start(), whether
         \* audio was running before the call, and whether the call is still
         \* waiting in audioThread.join()
         initOk |-> FALSE, startOk |-> FALSE, running |-> FALSE, pending |-> FALSE]

\* the record of a chain or map operation; hit: its ID was in the chain
ChainOp(name, hit) == [NoOp EXCEPT !.op = name, !.hit = hit]
NoCall == [id |-> 0, was |-> "Unloaded", in |-> Silence, out |-> Silence,
           fault |-> FALSE, prior |-> FALSE]

\* the zero-filled, never-null input buffers that audioThreadFunc hands to
\* the callback in every cycle
EngineInputs == {Silence}

\* IDs and positions the control thread may pass
IdArgs == 1..(NumIds + 1)
PositionArgs == (0 - 1)..NumIds
DriverTypes == {"ASIO", "WASAPI", "DirectSound", "Unknown"}

\* std::find + erase of the first occurrence
RECURSIVE EraseFirst(_, _)
EraseFirst(chain, id) ==
    IF chain = <<>> THEN <<>>
    ELSE IF Head(chain) = id THEN Tail(chain)
    ELSE <<Head(chain)>> \o EraseFirst(Tail(chain), id)

InChain(chain, id) == \E i \in 1..Len(chain) : chain[i] = id

\* vector::insert(begin() + pos, id), pos counted from 0
InsertAt(chain, pos, id) ==
    SubSeq(chain, 1, pos) \o <<id>> \o SubSeq(chain, pos + 1, Len(chain))

MapErase(map, id) == [i \in DOMAIN map \ {id} |-> map[i]]
MapPut(map, id, inst) == [i \in DOMAIN map \cup {id} |-> IF i = id THEN inst ELSE map[i]]
EmptyMap == [i \in {} |-> 0]

\* loadPlugin that takes the ID from the counter before it tries to load
loadPlugin_AllocatesFirst(path, env) ==
    LET scan == scanPluginInProcess(path)
        loaded == PluginInstance_load(PluginInstance(scan.info), env)
        failed(constructed) ==
            /\ lastOp' = [NoOp EXCEPT !.op = "loadPlugin", !.path = path, !.ret = FALSE,
                          !.constructed = constructed,
                          !.blacklisted = path \in blacklistedPlugins]
            /\ nextPluginId' = IF constructed /\ nextPluginId <= NumIds + 1
                               THEN nextPluginId + 1 ELSE nextPluginId
            /\ UNCHANGED <<loadedPlugins, pluginChain, midCycleMutation>>
    IN  /\ IF isBlacklisted(path) THEN failed(FALSE)
           ELSE IF ~validatePlugin(path) THEN failed(FALSE)
           ELSE IF ~scan.ok THEN failed(FALSE)
           ELSE IF ~loaded.ret THEN failed(TRUE)
           ELSE /\ TryLock
                /\ nextPluginId <= NumIds + 1
                /\ nextPluginId' = nextPluginId + 1
                /\ loadedPlugins' = MapPut(loadedPlugins, nextPluginId, loaded.inst)
                /\ Mutated(TRUE)
                /\ lastOp' = [NoOp EXCEPT !.op = "loadPlugin", !.path = path, !.ret = TRUE,
                          !.constructed = TRUE,
                          !.blacklisted = FALSE]
                /\ UNCHANGED pluginChain
        /\ UNCHANGED <<bridgeVars, auxVars, clientVars, scanVars, engineVars, blacklistedPlugins, audioRunning, pluginMutex, rtVars>>

\* EnhancedVSTHost::loadPlugin
loadPlugin(path, env) ==
    LET scan == scanPluginInProcess(path)
        loaded == PluginInstance_load(PluginInstance(scan.info), env)
        failed(constructed) ==
            /\ lastOp' = [NoOp EXCEPT !.op = "loadPlugin", !.path = path, !.ret = FALSE,
                          !.constructed = constructed,
                          !.blacklisted = path \in blacklistedPlugins]
            /\ UNCHANGED <<hostVars, midCycleMutation>>
    IN  /\ IF isBlacklisted(path) THEN failed(FALSE)
           ELSE IF ~validatePlugin(path) THEN failed(FALSE)
           ELSE IF ~scan.ok THEN failed(FALSE)
           ELSE IF ~loaded.ret THEN failed(TRUE)
           ELSE /\ TryLock
                /\ nextPluginId <= NumIds + 1
                /\ nextPluginId' = nextPluginId + 1
                /\ loadedPlugins' = MapPut(loadedPlugins, nextPluginId, loaded.inst)
                /\ Mutated(TRUE)
                /\ lastOp' = [NoOp EXCEPT !.op = "loadPlugin", !.path = path, !.ret = TRUE,
                          !.constructed = TRUE,
                          !.blacklisted = FALSE]
                /\ UNCHANGED pluginChain
        /\ UNCHANGED <<bridgeVars, auxVars, clientVars, scanVars, engineVars, blacklistedPlugins, audioRunning, pluginMutex, rtVars>>

\* unloadPlugin that erases the instance and leaves the chain alone
unloadPlugin_KeepsChain(id) ==
    /\ TryLock
    /\ loadedPlugins' = IF id \in DOMAIN loadedPlugins
                        THEN MapErase(loadedPlugins, id) ELSE loadedPlugins
    /\ pluginChain' = pluginChain
    /\ Mutated(id \in DOMAIN loadedPlugins)
    /\ lastOp' = ChainOp("unloadPlugin", InChain(pluginChain, id))
    /\ UNCHANGED <<bridgeVars, auxVars, clientVars, scanVars, engineVars, nextPluginId, blacklistedPlugins, audioRunning, pluginMutex,
                   rtVars>>

\* EnhancedVSTHost::unloadPlugin
unloadPlugin(id) ==
    /\ TryLock
    /\ loadedPlugins' = IF id \in DOMAIN loadedPlugins
                        THEN MapErase(loadedPlugins, id) ELSE loadedPlugins
    /\ pluginChain' = EraseFirst(pluginChain, id)
    /\ Mutated(id \in DOMAIN loadedPlugins \/ InChain(pluginChain, id))
    /\ lastOp' = ChainOp("unloadPlugin", InChain(pluginChain, id))
    /\ UNCHANGED <<bridgeVars, auxVars, clientVars, scanVars, engineVars, nextPluginId, blacklistedPlugins, audioRunning, pluginMutex,
                   rtVars>>

\* EnhancedVSTHost::unloadAllPlugins
unloadAllPlugins ==
    /\ TryLock
    /\ loadedPlugins' = EmptyMap
    /\ pluginChain' = <<>>
    /\ Mutated(DOMAIN loadedPlugins # {} \/ pluginChain # <<>>)
    /\ lastOp' = ChainOp("unloadAllPlugins", pluginChain # <<>>)
    /\ hostpc' = IF hostpc = "shutdown.unloadAllPlugins" THEN "shutdown.bridge32" ELSE hostpc
    /\ UNCHANGED <<bridgeVars, currentDriverType, render, logger, reaper, clientVars, scanVars, engineVars, nextPluginId, blacklistedPlugins, audioRunning, pluginMutex,
                   rtVars>>

\* addPluginToChain without the "already in chain" test
addPluginToChain_NoDupCheck(id) ==
    /\ TryLock
    /\ pluginChain' = IF id \in DOMAIN loadedPlugins
                      THEN Append(pluginChain, id) ELSE pluginChain
    /\ Mutated(pluginChain' # pluginChain)
    /\ lastOp' = ChainOp("addPluginToChain", InChain(pluginChain, id))
    /\ UNCHANGED <<bridgeVars, auxVars, clientVars, scanVars, engineVars, loadedPlugins, nextPluginId, blacklistedPlugins, audioRunning,
                   pluginMutex, rtVars>>

\* EnhancedVSTHost::addPluginToChain
addPluginToChain(id) ==
    /\ TryLock
    /\ pluginChain' = IF id \in DOMAIN loadedPlugins /\ ~InChain(pluginChain, id)
                      THEN Append(pluginChain, id) ELSE pluginChain
    /\ Mutated(pluginChain' # pluginChain)
    /\ lastOp' = ChainOp("addPluginToChain", InChain(pluginChain, id))
    /\ UNCHANGED <<bridgeVars, auxVars, clientVars, scanVars, engineVars, loadedPlugins, nextPluginId, blacklistedPlugins, audioRunning,
                   pluginMutex, rtVars>>

\* EnhancedVSTHost::removePluginFromChain
removePluginFromChain(id) ==
    /\ TryLock
    /\ pluginChain' = EraseFirst(pluginChain, id)
    /\ Mutated(pluginChain' # pluginChain)
    /\ lastOp' = ChainOp("removePluginFromChain", InChain(pluginChain, id))
    /\ UNCHANGED <<bridgeVars, auxVars, clientVars, scanVars, engineVars, loadedPlugins, nextPluginId, blacklistedPlugins, audioRunning,
                   pluginMutex, rtVars>>

\* the find / erase / insert of movePluginInChain with a negative position
\* clamped to the front
MovedChain_Clamped(chain, id, newPosition) ==
    IF InChain(chain, id)
    THEN LET erased == EraseFirst(chain, id)
         IN  IF newPosition < 0 THEN InsertAt(erased, 0, id)
             ELSE IF newPosition <= Len(erased)
                  THEN InsertAt(erased, newPosition, id)
                  ELSE Append(erased, id)
    ELSE chain

\* the chain that movePluginInChain leaves: std::find, erase, then insert at
\* newPosition or push_back
MovedChain(chain, id, newPosition) ==
    IF InChain(chain, id)
    THEN LET erased == EraseFirst(chain, id)
         IN  IF newPosition >= 0 /\ newPosition <= Len(erased)
             THEN InsertAt(erased, newPosition, id)
             ELSE Append(erased, id)
    ELSE chain

\* EnhancedVSTHost::movePluginInChain
movePluginInChain(id, newPosition) ==
    /\ TryLock
    /\ pluginChain' = MovedChain(pluginChain, id, newPosition)
    /\ Mutated(pluginChain' # pluginChain)
    /\ lastOp' = ChainOp("movePluginInChain", InChain(pluginChain, id))
    /\ UNCHANGED <<bridgeVars, auxVars, clientVars, scanVars, engineVars, loadedPlugins, nextPluginId, blacklistedPlugins, audioRunning,
                   pluginMutex, rtVars>>

\* EnhancedVSTHost::bypassPlugin (PluginInstance::setBypass)
bypassPlugin(id, bypass) ==
    /\ TryLock
    /\ loadedPlugins' = IF id \in DOMAIN loadedPlugins
                        THEN [loadedPlugins EXCEPT ![id].bypassed = bypass]
                        ELSE loadedPlugins
    /\ Mutated(loadedPlugins' # loadedPlugins)
    /\ lastOp' = ChainOp("bypassPlugin", InChain(pluginChain, id))
    /\ UNCHANGED <<bridgeVars, auxVars, clientVars, scanVars, engineVars, pluginChain, nextPluginId, blacklistedPlugins, audioRunning,
                   pluginMutex, rtVars>>

\* EnhancedVSTHost::addToBlacklist
addToBlacklist(path) ==
    /\ blacklistedPlugins' = blacklistedPlugins \cup {path}
    /\ UNCHANGED <<bridgeVars, auxVars, clientVars, scanVars, engineVars, hostVars, audioRunning, pluginMutex, rtVars, midCycleMutation, lastOp>>

\* EnhancedVSTHost::removeFromBlacklist
removeFromBlacklist(path) ==
    /\ blacklistedPlugins' = blacklistedPlugins \ {path}
    /\ UNCHANGED <<bridgeVars, auxVars, clientVars, scanVars, engineVars, hostVars, audioRunning, pluginMutex, rtVars, midCycleMutation, lastOp>>

\* EnhancedVSTHost::startAudio with WASAPIEngine::start; initOk is the
\* result of the engine's initialize(), startOk that of audioClient->Start().
\* start() creates the audio thread first; when Start() fails it sets
\* shouldStop and joins the thread before it returns false
StartOp(driverType, initOk, startOk) ==
    [NoOp EXCEPT !.op = "startAudio", !.arg = driverType, !.initOk = initOk,
                 !.startOk = startOk, !.running = audioRunning]

\* a startAudio that sets audioRunning before the engine has started
startAudio_RunningFirst(driverType, initOk, startOk) ==
    /\ ctlpc = "idle"
    /\ IF audioRunning
       THEN /\ lastOp' = [StartOp(driverType, initOk, startOk) EXCEPT !.ret = TRUE]
            /\ UNCHANGED <<audioRunning, engineVars, clientVars>>
       ELSE IF driverType # "WASAPI" \/ ~initOk
       THEN /\ lastOp' = StartOp(driverType, initOk, startOk)
            /\ UNCHANGED <<audioRunning, engineVars, clientVars>>
       ELSE /\ audioThread' = "running"
            /\ shouldStop' = ~startOk
            /\ ctlpc' = IF startOk THEN "idle" ELSE "start.join"
            /\ audioRunning' = TRUE
            /\ audioEngine' = TRUE
            /\ deviceEnumerator' = TRUE
            /\ audioClient' = TRUE
            /\ clientStarted' = startOk
            /\ lastOp' = [StartOp(driverType, initOk, startOk)
                             EXCEPT !.ret = startOk, !.pending = ~startOk]
            /\ UNCHANGED wasRunning
    /\ currentDriverType' = IF ~audioRunning /\ driverType = "WASAPI" /\ initOk /\ startOk
                            THEN driverType ELSE currentDriverType
    /\ UNCHANGED <<bridgeVars, hostpc, render, logger, reaper, scanVars, hostVars, blacklistedPlugins,
                   pluginMutex, rtVars, midCycleMutation>>

\* EnhancedVSTHost::startAudio with WASAPIEngine::initialize and
\* WASAPIEngine::start; initOk is the result of the engine's initialize(),
\* startOk that of audioClient->Start().  An engine whose initialize()
\* failed is released at once.  start() creates the audio thread first; when
\* Start() fails it sets shouldStop and joins the thread before it returns
\* false
startAudio(driverType, initOk, startOk) ==
    /\ ctlpc = "idle"
    /\ IF audioRunning
       THEN /\ lastOp' = [StartOp(driverType, initOk, startOk) EXCEPT !.ret = TRUE]
            /\ UNCHANGED <<audioRunning, engineVars, clientVars>>
       ELSE IF driverType # "WASAPI" \/ ~initOk
       THEN /\ lastOp' = StartOp(driverType, initOk, startOk)
            /\ UNCHANGED <<audioRunning, engineVars, clientVars>>
       ELSE /\ audioThread' = "running"
            /\ shouldStop' = ~startOk
            /\ ctlpc' = IF startOk THEN "idle" ELSE "start.join"
            /\ audioRunning' = startOk
            /\ audioEngine' = TRUE
            /\ deviceEnumerator' = TRUE
            /\ audioClient' = TRUE
            /\ clientStarted' = startOk
            /\ lastOp' = [StartOp(driverType, initOk, startOk)
                             EXCEPT !.ret = startOk, !.pending = ~startOk]
            /\ UNCHANGED wasRunning
    /\ currentDriverType' = IF ~audioRunning /\ driverType = "WASAPI" /\ initOk /\ startOk
                            THEN driverType ELSE currentDriverType
    /\ UNCHANGED <<bridgeVars, hostpc, render, logger, reaper, scanVars, hostVars, blacklistedPlugins,
                   pluginMutex, rtVars, midCycleMutation>>

\* EnhancedVSTHost::stopAudio up to audioThread.join() in WASAPIEngine::stop;
\* hit: the audio thread is inside the callback at that time.  Called from
\* shutdown() it returns there, at once when audio is not running
stopAudio ==
    /\ ctlpc = "idle"
    /\ IF ~audioRunning
       THEN UNCHANGED <<audioRunning, engineVars, clientVars, lastOp>>
       ELSE /\ audioRunning' = FALSE
            /\ clientStarted' = FALSE
            /\ shouldStop' = TRUE
            /\ ctlpc' = "stop.join"
            /\ lastOp' = ChainOp("stopAudio", rtpc = "loop")
            /\ UNCHANGED <<audioThread, audioEngine, deviceEnumerator, audioClient,
                           wasRunning>>
    /\ hostpc' = IF hostpc = "shutdown.stopAudio" /\ ~audioRunning
                 THEN "shutdown.unloadAllPlugins" ELSE hostpc
    /\ UNCHANGED <<bridgeVars, currentDriverType, render, logger, reaper, scanVars, hostVars, blacklistedPlugins, pluginMutex, rtVars,
                   midCycleMutation>>

\* a stop() that does not wait for the audio thread
joinAudioThread_NoWait ==
    /\ ctlpc \in {"stop.join", "start.join"}
    /\ audioThread' = IF audioThread = "exited" THEN "none" ELSE audioThread
    /\ ctlpc' = "idle"
    /\ lastOp' = IF ctlpc = "stop.join" /\ lastOp.op = "stopAudio"
                 THEN [lastOp EXCEPT !.ret = TRUE]
                 ELSE IF ctlpc = "start.join" /\ lastOp.op = "startAudio"
                 THEN [lastOp EXCEPT !.pending = FALSE]
                 ELSE lastOp
    /\ audioEngine' = FALSE
    /\ deviceEnumerator' = FALSE
    /\ audioClient' = FALSE
    /\ clientStarted' = FALSE
    /\ UNCHANGED wasRunning
    /\ hostpc' = IF hostpc = "shutdown.stopAudio" /\ ctlpc = "stop.join"
                 THEN "shutdown.unloadAllPlugins" ELSE hostpc
    /\ UNCHANGED <<bridgeVars, currentDriverType, render, logger, reaper, scanVars, hostVars, blacklistedPlugins, audioRunning, shouldStop,
                   pluginMutex, rtVars, midCycleMutation>>

\* audioThread.join() returns (WASAPIEngine::stop, or the failure branch of
\* WASAPIEngine::start) and the caller (stopAudio, startAudio) releases the
\* engine with shutdown() and reset(); ret: stopAudio has returned, pending:
\* startAudio has not (recorded while the call is still the latest operation)
joinAudioThread ==
    /\ ctlpc \in {"stop.join", "start.join"}
    /\ audioThread = "exited"
    /\ audioThread' = "none"
    /\ ctlpc' = "idle"
    /\ lastOp' = IF ctlpc = "stop.join" /\ lastOp.op = "stopAudio"
                 THEN [lastOp EXCEPT !.ret = TRUE]
                 ELSE IF ctlpc = "start.join" /\ lastOp.op = "startAudio"
                 THEN [lastOp EXCEPT !.pending = FALSE]
                 ELSE lastOp
    /\ audioEngine' = FALSE
    /\ deviceEnumerator' = FALSE
    /\ audioClient' = FALSE
    /\ clientStarted' = FALSE
    /\ UNCHANGED wasRunning
    /\ hostpc' = IF hostpc = "shutdown.stopAudio" /\ ctlpc = "stop.join"
                 THEN "shutdown.unloadAllPlugins" ELSE hostpc
    /\ UNCHANGED <<bridgeVars, currentDriverType, render, logger, reaper, scanVars, hostVars, blacklistedPlugins, audioRunning, shouldStop,
                   pluginMutex, rtVars, midCycleMutation>>

\* WASAPIEngine::audioThreadFunc leaves its loop outside the callback: the
\* bounded wait ends and "while (!shouldStop)" sees the flag, or the wait
\* fails (waitError) and the loop breaks
audioThreadExit(waitError) ==
    /\ audioThread = "running"
    /\ rtpc = "idle"
    /\ shouldStop \/ waitError
    /\ audioThread' = "exited"
    /\ UNCHANGED <<bridgeVars, auxVars, clientVars, scanVars, hostVars, blacklistedPlugins, audioRunning, shouldStop,
                   ctlpc, pluginMutex, rtVars, midCycleMutation, lastOp>>

\* ------------------------------------------------- the audio callback lambda
\* "Clear output buffers" then "Copy input to output"
CopyInputs(in) == [ch \in Channels |-> IF in[ch] = NullChannel THEN 0 ELSE in[ch]]

\* entry of the callback, which the audio thread calls after it passed
\* "while (!shouldStop)" and its wait for the buffer event ended: the
\* lock_guard, the clear and the copy
CycleBegin(in) ==
    /\ audioThread = "running"
    /\ rtpc = "idle"
    /\ TryLock
    /\ pluginMutex' = "audio"
    /\ rtpc' = "loop"
    /\ rtidx' = 1
    /\ cycleIn' = in
    /\ outputs' = CopyInputs(in)
    /\ calls' = <<>>
    /\ visited' = <<>>
    /\ lastCall' = NoCall
    /\ UNCHANGED <<bridgeVars, auxVars, clientVars, scanVars, engineVars, hostVars, blacklistedPlugins, audioRunning, faulted, crashLog,
                   midCycleMutation, lastOp>>

\* the loop body handing the callback's inputs, not the running output
\* buffers, to every plugin
CycleStep_FromInputs ==
    /\ rtpc = "loop"
    /\ rtidx <= Len(pluginChain)
    /\ LET id == pluginChain[rtidx] IN
       /\ visited' = Append(visited, id)
       /\ IF id \in DOMAIN loadedPlugins /\ ~loadedPlugins[id].bypassed
          THEN \E w \in Buffers, fault \in BOOLEAN,
                  threw \in processReplacingThrows(loadedPlugins[id]) :
                 LET r == processReplacing(loadedPlugins[id], CopyInputs(cycleIn),
                                           outputs, FALSE, w, fault)
                 IN  /\ loadedPlugins' = [loadedPlugins EXCEPT ![id] = r.inst]
                     /\ outputs' = r.out
                     /\ calls' = IF r.called
                                  THEN Append(calls, [id |-> id, fault |-> r.trapped])
                                  ELSE calls
                     /\ lastCall' = IF r.called
                                    THEN [id |-> id, was |-> loadedPlugins[id].state,
                                          in |-> CopyInputs(cycleIn),
                                          out |-> r.out,
                                          fault |-> r.trapped, prior |-> id \in faulted]
                                    ELSE lastCall
                     /\ faulted' = IF r.trapped THEN faulted \cup {id} ELSE faulted
                     /\ rtpc' = IF threw THEN "handlePluginCrash" ELSE rtpc
                     /\ rtidx' = IF threw THEN rtidx ELSE rtidx + 1
          ELSE /\ rtidx' = rtidx + 1
               /\ UNCHANGED <<loadedPlugins, outputs, calls, lastCall, faulted, rtpc>>
    /\ UNCHANGED <<bridgeVars, auxVars, clientVars, scanVars, engineVars, pluginChain, nextPluginId, blacklistedPlugins, audioRunning,
                   pluginMutex, cycleIn, crashLog, midCycleMutation, lastOp>>

\* one iteration of "for (int pluginId : pluginChain)"
CycleStep ==
    /\ rtpc = "loop"
    /\ rtidx <= Len(pluginChain)
    /\ LET id == pluginChain[rtidx] IN
       /\ visited' = Append(visited, id)
       /\ IF id \in DOMAIN loadedPlugins /\ ~loadedPlugins[id].bypassed
          THEN \E w \in Buffers, fault \in BOOLEAN,
                  threw \in processReplacingThrows(loadedPlugins[id]) :
                 LET r == processReplacing(loadedPlugins[id], outputs, outputs,
                                           TRUE, w, fault)
                 IN  /\ loadedPlugins' = [loadedPlugins EXCEPT ![id] = r.inst]
                     /\ outputs' = r.out
                     /\ calls' = IF r.called
                                  THEN Append(calls, [id |-> id, fault |-> r.trapped])
                                  ELSE calls
                     /\ lastCall' = IF r.called
                                    THEN [id |-> id, was |-> loadedPlugins[id].state,
                                          in |-> outputs, out |-> r.out,
                                          fault |-> r.trapped, prior |-> id \in faulted]
                                    ELSE lastCall
                     /\ faulted' = IF r.trapped THEN faulted \cup {id} ELSE faulted
                     \* catch (const std::exception&): handlePluginCrash, whose
                     \* removePluginFromChain locks pluginMutex again
                     /\ rtpc' = IF threw THEN "handlePluginCrash" ELSE rtpc
                     /\ rtidx' = IF threw THEN rtidx ELSE rtidx + 1
          ELSE /\ rtidx' = rtidx + 1
               /\ UNCHANGED <<loadedPlugins, outputs, calls, lastCall, faulted, rtpc>>
    /\ UNCHANGED <<bridgeVars, auxVars, clientVars, scanVars, engineVars, pluginChain, nextPluginId, blacklistedPlugins, audioRunning,
                   pluginMutex, cycleIn, crashLog, midCycleMutation, lastOp>>

\* the loop is over: the callback returns, the lock_guard releases and the
\* audio thread evaluates "while (!shouldStop)"
CycleEnd ==
    /\ rtpc = "loop"
    /\ rtidx > Len(pluginChain)
    /\ audioThread' = IF shouldStop THEN "exited" ELSE audioThread
    /\ UNCHANGED <<shouldStop, ctlpc>>
    /\ rtpc' = "idle"
    /\ pluginMutex' = "free"
    /\ rtidx' = 0
    /\ calls' = <<>>
    /\ visited' = <<>>
    /\ lastCall' = NoCall
    /\ UNCHANGED <<bridgeVars, auxVars, clientVars, scanVars, hostVars, blacklistedPlugins, audioRunning, outputs, cycleIn,
                   faulted, crashLog, midCycleMutation, lastOp>>

\* ------------------------------------------- PluginScanner::scanDirectory
\* The files of a scanned directory.  hangs: the code of the file never
\* returns when a process loads and calls it (LoadLibraryW, GetPluginFactory
\* in the scan worker's wmain); only a loadable image can do so.
DirFiles ==
    { f \in [path : { q \in Paths : q.exists }
                     \cup { [name |-> "chorus", ext |-> ".dll", exists |-> TRUE,
                             image |-> TRUE] },
             hangs : BOOLEAN] :
        f.hangs => f.path.image }

\* what recursive_directory_iterator can list: distinct files
Directories ==
    { d \in UNION { [1..n -> DirFiles] : n \in 0..MaxFiles } :
        \A i, j \in DOMAIN d : d[i].path = d[j].path => i = j }

\* steady_clock readings, in milliseconds
Times == {MAX_PLUGIN_SCAN_TIME_MS, MAX_PLUGIN_SCAN_TIME_MS + 1}

\* the readings of steady_clock::now() that n sweeps make, in the order made
Clocks(n) == { c \in [1..n -> Times] : \A i, j \in 1..n : i < j => c[i] <= c[j] }

\* the readings of n sweeps over the jobs: a reading is compared with the
\* start times of the jobs only, so with no job one reading stands for all
ClocksOver(jobs, n) ==
    IF jobs = <<>> THEN { [i \in 1..n |-> MAX_PLUGIN_SCAN_TIME_MS] } ELSE Clocks(n)

\* the extension filter of scanDirectory
IsPluginFile(f) == f.path.ext \in {".dll", ".vst3"}

\* a sweep that takes the job that is exactly at the deadline too
terminateHungProcesses_AtDeadline(jobs, now) ==
    LET Young(job) == ~(now - job.startTime >= MAX_PLUGIN_SCAN_TIME_MS)
    IN  SelectSeq(jobs, Young)

\* PluginScanner::terminateHungProcesses: the jobs it leaves in activeJobs
terminateHungProcesses(jobs, now) ==
    LET Young(job) == ~(now - job.startTime > MAX_PLUGIN_SCAN_TIME_MS)
    IN  SelectSeq(jobs, Young)

\* the Win32 calls of terminateHungProcesses, in the order made: those of
\* the jobs that it erases
RECURSIVE ReapCalls(_, _)
ReapCalls(jobs, left) ==
    IF jobs = <<>> THEN <<>>
    ELSE IF left # <<>> /\ Head(left) = Head(jobs)
         THEN ReapCalls(Tail(jobs), Tail(left))
         ELSE <<[fn |-> "TerminateProcess", handle |-> Head(jobs).processHandle],
                [fn |-> "CloseHandle", handle |-> Head(jobs).processHandle],
                [fn |-> "CloseHandle", handle |-> Head(jobs).pipeHandle]>>
              \o ReapCalls(Tail(jobs), left)

\* one call of terminateHungProcesses: made when "after" candidates had been
\* scanned, on the jobs it found, each with its elapsed milliseconds at the
\* clock reading that the sweep took
Sweep(jobs, now, after, final) ==
    LET left == terminateHungProcesses(jobs, now)
    IN  [after |-> after, final |-> final, jobs |-> jobs,
         elapsed |-> [i \in DOMAIN jobs |-> now - jobs[i].startTime],
         left |-> left, calls |-> ReapCalls(jobs, left)]

\* the sweep that an accumulator of the loop makes next; every sweep reads
\* the clock anew (reads: the readings taken so far)
NextSweep(acc, clock, after, final) ==
    Sweep(acc.jobs, clock[acc.reads + 1], after, final)

\* onProgress, scanPluginInProcess or onPluginFound is called for a file
ScanEvent(kind, path) == [kind |-> kind, path |-> path]

\* the accumulator of the loop before its first candidate
ScanStart(jobs) ==
    [found |-> <<>>, progress |-> <<>>, events |-> <<>>, jobs |-> jobs,
     sweeps |-> <<>>, reads |-> 0]

\* a loop body that passes the descriptor on whatever the scan returned
ScanOne_ReportsAll(files, cur, acc, clock) ==
    LET r == scanPluginInProcess(files[cur].path)
    IN  [found |-> Append(acc.found, r.info),
         progress |-> Append(acc.progress,
                             [current |-> cur, total |-> Len(files),
                              path |-> files[cur].path]),
         events |-> acc.events \o <<ScanEvent("progress", files[cur].path),
                                    ScanEvent("scan", files[cur].path),
                                    ScanEvent("found", files[cur].path)>>,
         jobs |-> IF cur % ReapEvery = 0
                  THEN NextSweep(acc, clock, cur, FALSE).left
                  ELSE acc.jobs,
         sweeps |-> IF cur % ReapEvery = 0
                    THEN Append(acc.sweeps, NextSweep(acc, clock, cur, FALSE))
                    ELSE acc.sweeps,
         reads |-> IF cur % ReapEvery = 0 THEN acc.reads + 1 ELSE acc.reads]

\* the body of "for (const auto& pluginPath : pluginFiles)" for candidate
\* cur: onProgress, the scan, onPluginFound when it succeeded, and the
\* periodic terminateHungProcesses
ScanOne(files, cur, acc, clock) ==
    LET r == scanPluginInProcess(files[cur].path)
    IN  [found |-> IF r.ok THEN Append(acc.found, r.info) ELSE acc.found,
         progress |-> Append(acc.progress,
                             [current |-> cur, total |-> Len(files),
                              path |-> files[cur].path]),
         events |-> acc.events \o <<ScanEvent("progress", files[cur].path),
                                    ScanEvent("scan", files[cur].path)>>
                               \o IF r.ok THEN <<ScanEvent("found", files[cur].path)>>
                                  ELSE <<>>,
         jobs |-> IF cur % ReapEvery = 0
                  THEN NextSweep(acc, clock, cur, FALSE).left
                  ELSE acc.jobs,
         sweeps |-> IF cur % ReapEvery = 0
                    THEN Append(acc.sweeps, NextSweep(acc, clock, cur, FALSE))
                    ELSE acc.sweeps,
         reads |-> IF cur % ReapEvery = 0 THEN acc.reads + 1 ELSE acc.reads]

\* the loop of scanDirectory from the candidate after current: the
\* onPluginFound and onProgress calls made and the jobs left
RECURSIVE ScanLoop(_, _, _, _)
ScanLoop(files, current, acc, clock) ==
    IF current = Len(files) THEN acc
    ELSE ScanLoop(files, current + 1, ScanOne(files, current + 1, acc, clock), clock)

\* a scanDirectory that goes on with the candidates after the directory
\* iteration has raised
scanDirectory_IgnoresError(dir, dirOk, clock) ==
    \E files \in { SelectSeq(dir, IsPluginFile) } :
    \E r \in { ScanLoop(files, 0, ScanStart(activeJobs), clock) } :
    \E last \in { NextSweep(r, clock, Len(files), TRUE) } :
        /\ pluginFiles' = files
        /\ onPluginFound' = r.found
        /\ onProgress' = r.progress
        /\ scanEvents' = r.events
        /\ UNCHANGED <<foundPlugins, scanResult>>
        /\ activeJobs' = last.left
        /\ reaper' = Append(r.sweeps, last)
        /\ lastOp' = [NoOp EXCEPT !.op = "scanDirectory", !.ret = dirOk]
        /\ UNCHANGED <<bridgeVars, hostpc, currentDriverType, render, logger, clientVars, engineVars, hostVars, blacklistedPlugins, audioRunning,
                       pluginMutex, rtVars, midCycleMutation>>

\* PluginScanner::scanDirectory; dirOk: the directory iteration raises
\* nothing.  The scan of every candidate is scanPluginInProcess, in the
\* calling thread; no job is ever put in activeJobs
scanDirectory(dir, dirOk, clock) ==
    \E files \in { IF dirOk THEN SelectSeq(dir, IsPluginFile) ELSE <<>> } :
    \E r \in { ScanLoop(files, 0, ScanStart(activeJobs), clock) } :
    \E last \in { NextSweep(r, clock, Len(files), TRUE) } :
        /\ pluginFiles' = files
        /\ onPluginFound' = r.found
        /\ onProgress' = r.progress
        /\ scanEvents' = r.events
        /\ UNCHANGED <<foundPlugins, scanResult>>
        /\ activeJobs' = IF dirOk THEN last.left ELSE activeJobs
        /\ reaper' = IF dirOk THEN Append(r.sweeps, last) ELSE <<>>
        /\ lastOp' = [NoOp EXCEPT !.op = "scanDirectory", !.ret = dirOk]
        /\ UNCHANGED <<bridgeVars, hostpc, currentDriverType, render, logger, clientVars, engineVars, hostVars, blacklistedPlugins, audioRunning,
                       pluginMutex, rtVars, midCycleMutation>>

\* ------------------------------------------- EnhancedVSTHost::scanPlugins
\* the files of the directories that scanPlugins is given: two that
\* scanPluginInProcess accepts and one that it rejects
SearchFiles ==
    { f \in DirFiles : ~f.hangs /\ f.path.name \in {"reverb", "delay", "broken"} }

\* searchPaths: directories, each with the outcome of its iteration, that
\* hold distinct files, MaxFiles of them at most
SearchPaths ==
    LET Dirs == { d \in Directories : \A i \in DOMAIN d : d[i] \in SearchFiles }
        Total(sp) == IF Len(sp) = 0 THEN 0
                     ELSE IF Len(sp) = 1 THEN Len(sp[1].dir)
                     ELSE IF Len(sp) = 2 THEN Len(sp[1].dir) + Len(sp[2].dir)
                     ELSE Len(sp[1].dir) + Len(sp[2].dir) + Len(sp[3].dir)
    IN  { sp \in UNION { [1..n -> [dir : Dirs, ok : BOOLEAN]] : n \in 0..MaxSearchPaths } :
            /\ Total(sp) <= MaxFiles
            /\ \A i, j \in DOMAIN sp : i # j =>
                  \A a \in DOMAIN sp[i].dir, b \in DOMAIN sp[j].dir :
                     sp[i].dir[a].path # sp[j].dir[b].path }

\* an onPluginFound lambda that keeps every descriptor
KeepUnlisted_All(found) == found

\* the onPluginFound lambda of scanPlugins over the descriptors it is
\* called with: "if (!isBlacklisted(info.path)) foundPlugins.push_back(info)"
KeepUnlisted(found) ==
    LET Unlisted(info) == ~isBlacklisted(info.path)
    IN  SelectSeq(found, Unlisted)

\* "for (const auto& path : searchPaths) scanner->scanDirectory(...)" from
\* search path i: the candidates, the callbacks and the jobs of all of them
RECURSIVE ScanPaths(_, _, _, _)
ScanPaths(searchPaths, i, acc, clock) ==
    IF i > Len(searchPaths) THEN acc
    ELSE LET files == IF searchPaths[i].ok
                      THEN SelectSeq(searchPaths[i].dir, IsPluginFile) ELSE <<>>
             r == ScanLoop(files, 0,
                           [found |-> acc.found, progress |-> acc.progress,
                            events |-> acc.events, jobs |-> acc.jobs,
                            sweeps |-> <<>>, reads |-> acc.reads], clock)
             last == NextSweep(r, clock, Len(files), TRUE)
         IN  ScanPaths(searchPaths, i + 1,
                       [files |-> acc.files \o files, found |-> r.found,
                        progress |-> r.progress, events |-> r.events,
                        jobs |-> IF searchPaths[i].ok THEN last.left ELSE r.jobs,
                        sweeps |-> IF searchPaths[i].ok THEN Append(r.sweeps, last)
                                   ELSE <<>>,
                        reads |-> IF searchPaths[i].ok THEN r.reads + 1 ELSE r.reads],
                       clock)

\* EnhancedVSTHost::scanPlugins
scanPlugins(searchPaths, clock) ==
    \E r \in { ScanPaths(searchPaths, 1,
                         [files |-> <<>>, found |-> <<>>, progress |-> <<>>,
                          events |-> <<>>, jobs |-> activeJobs, sweeps |-> <<>>,
                          reads |-> 0],
                         clock) } :
        /\ pluginFiles' = r.files
        /\ onPluginFound' = r.found
        /\ onProgress' = r.progress
        /\ scanEvents' = r.events
        /\ foundPlugins' = KeepUnlisted(r.found)
        /\ activeJobs' = r.jobs
        /\ reaper' = r.sweeps
        /\ lastOp' = [NoOp EXCEPT !.op = "scanPlugins"]
        /\ UNCHANGED <<scanResult, bridgeVars, hostpc, currentDriverType, render, logger, clientVars, engineVars, hostVars,
                       blacklistedPlugins, audioRunning, pluginMutex, rtVars,
                       midCycleMutation>>

\* ------------------------------------------- PluginScanner::readScanResult
\* Lines that a scan worker's output pipe can hold: "key=value", or a line
\* without '=' (key "").  The worker writes validated=true before its
\* FreeLibrary and error=... from its exception handler, and code of the
\* scanned file shares its standard output.
WorkerLines ==
    { [key |-> "validated", value |-> "true"],
      [key |-> "validated", value |-> "false"],
      [key |-> "error",     value |-> "Plugin crashed during scanning"],
      [key |-> "type",      value |-> "VST2"],
      [key |-> "",          value |-> ""] }

WorkerOutputs == UNION { [1..n -> WorkerLines] : n \in 0..MaxLines }

\* the fields of EVH::PluginInfo that these lines set; none of them has a
\* default member initialiser, so validated is what the caller left in it
ParsedInfo(validated) == [type |-> "Unknown", validated |-> validated, errorMsg |-> ""]

\* the body of the getline loop for one line; stop: "return false"
ParseLine(line, info) ==
    CASE line.key = "type" ->
            [stop |-> FALSE,
             info |-> [info EXCEPT !.type = IF line.value \in {"VST3", "VST2"}
                                            THEN line.value ELSE "Unknown"]]
      [] line.key = "validated" ->
            [stop |-> FALSE, info |-> [info EXCEPT !.validated = (line.value = "true")]]
      [] line.key = "error" ->
            [stop |-> TRUE, info |-> [info EXCEPT !.errorMsg = line.value]]
      [] OTHER -> [stop |-> FALSE, info |-> info]

\* PluginScanner::readScanResult from line i of the worker's output: the
\* return value and the descriptor
RECURSIVE ParseFrom(_, _, _)
ParseFrom(out, i, info) ==
    IF i > Len(out) THEN [ret |-> info.validated, info |-> info]
    ELSE LET r == ParseLine(out[i], info)
         IN  IF r.stop THEN [ret |-> FALSE, info |-> r.info]
             ELSE ParseFrom(out, i + 1, r.info)

readScanResult(out, info) == ParseFrom(out, 1, info)

NoScanResult == [called |-> FALSE, out |-> <<>>, before |-> ParsedInfo(FALSE),
                 ret |-> FALSE, info |-> ParsedInfo(FALSE)]

\* a call of readScanResult on a pipe that holds out, with a descriptor whose
\* validated member holds validated0
Scanner_readScanResult(out, validated0) ==
    /\ scanResult' = [called |-> TRUE, out |-> out, before |-> ParsedInfo(validated0),
                      ret |-> readScanResult(out, ParsedInfo(validated0)).ret,
                      info |-> readScanResult(out, ParsedInfo(validated0)).info]
    /\ UNCHANGED <<activeJobs, pluginFiles, onPluginFound, onProgress, scanEvents,
                   foundPlugins>>
    /\ UNCHANGED <<bridgeVars, auxVars, clientVars, engineVars, hostVars, blacklistedPlugins, audioRunning,
                   pluginMutex, rtVars, midCycleMutation, lastOp>>

\* ------------------------------------------------------------ PluginBridge32
\* threads that call the bridge
Callers == {"ui", "worker"}

\* What the helper process does with a command line it has read: answer
\* with the line "OK", answer with another line (an error token or a
\* malformed line), write nothing, or end.
HelperMoves == {"OK", "ERR", "silent", "exit"}

NoLine == [text |-> "", for |-> 0]
\* the record of a call of a bridge method: cmd is the number of the command
\* line it wrote (wrote), line the response line it interpreted, terminated
\* whether it called TerminateProcess, wasOpen whether it found a session
NoBridgeCall == [op |-> "none", cmd |-> 0, wrote |-> FALSE, ret |-> FALSE,
                 done |-> FALSE, line |-> NoLine, terminated |-> FALSE,
                 wasOpen |-> FALSE]

\* the helper's answer to a command line: none yet
Pending == "pending"

\* WriteFile on the command pipe succeeds while the helper holds its read end
CanWrite == commandPipe /\ helper = "running"

\* PluginBridge32::sendCommand by thread t, the write succeeding
WriteLine(t, cmd) ==
    /\ cmdPipe' = Append(cmdPipe, [op |-> cmd, n |-> sent + 1])
    /\ sent' = sent + 1
    /\ overlap' = (overlap \/ \E u \in Callers \ {t} : bpc[u] = "load.recv")

\* PluginBridge32::sendCommand by thread t
sendCommand(t, cmd) ==
    IF CanWrite THEN WriteLine(t, cmd) ELSE UNCHANGED <<cmdPipe, sent, overlap>>

\* PluginBridge32::initialize; started: VSTBridge32.exe exists and CreatePipe
\* and CreateProcessW succeed.  It takes no lock, stores the new handles over
\* whatever the members hold, and writes INIT without reading an answer.
BridgeInitialize(t, started) ==
    /\ bpc[t] = "idle"
    /\ IF ~started
       THEN /\ bcall' = [bcall EXCEPT ![t] =
                           [NoBridgeCall EXCEPT !.op = "initialize", !.done = TRUE,
                                                !.wasOpen = (bridgeProcess = "open")]]
            /\ UNCHANGED <<bridgeProcess, commandPipe, dataPipe, helper, cmdPipe,
                           respPipe, sent, overlap, orphaned, protocolKept>>
       ELSE /\ sent < MaxCommands
            /\ bridgeProcess' = "open"
            /\ commandPipe' = TRUE
            /\ dataPipe' = TRUE
            /\ helper' = "running"
            /\ orphaned' = (orphaned \/ bridgeProcess = "open")
            /\ protocolKept' = TRUE
            /\ cmdPipe' = <<[op |-> "INIT", n |-> sent + 1]>>
            /\ respPipe' = <<>>
            /\ sent' = sent + 1
            /\ overlap' = (overlap \/ \E u \in Callers \ {t} : bpc[u] = "load.recv")
            /\ bcall' = [bcall EXCEPT ![t] =
                           [NoBridgeCall EXCEPT !.op = "initialize", !.done = TRUE,
                                                !.cmd = sent + 1, !.wrote = TRUE,
                                                !.ret = TRUE,
                                                !.wasOpen = (bridgeProcess = "open")]]
    /\ UNCHANGED <<bridgeMutex, bpc, answers>>

\* PluginBridge32::initialize called on the bridge alone
initialize(t, started) ==
    /\ BridgeInitialize(t, started)
    /\ UNCHANGED nonBridgeVars

\* what blacklist.txt holds when the host is initialized: its non-empty lines
BlacklistFiles ==
    { {}, {[name |-> "broken", ext |-> ".dll", exists |-> TRUE, image |-> FALSE]} }

\* EnhancedVSTHost::initialize on the UI thread; comOk: CoInitializeEx does
\* not fail.  A bridge that fails to initialize is logged and no more; the
\* lines of blacklist.txt are added to the blacklist.  called: it has called
\* the bridge's initialize()
Host_initialize(comOk, started, file) ==
    /\ hostpc = "run"
    /\ IF comOk
       THEN /\ BridgeInitialize("ui", started)
            /\ blacklistedPlugins' = blacklistedPlugins \cup file
       ELSE UNCHANGED <<bridgeVars, blacklistedPlugins>>
    /\ lastOp' = [NoOp EXCEPT !.op = "initialize", !.ret = comOk, !.called = comOk]
    /\ UNCHANGED <<loadedPlugins, pluginChain, nextPluginId, audioRunning,
                   pluginMutex, rtpc, rtidx, outputs, cycleIn, calls, lastCall,
                   visited, faulted, crashLog, midCycleMutation, engineVars,
                   clientVars, scanVars, auxVars>>

\* a loadPlugin32 that goes on to receiveResponse whatever sendCommand returned
loadPlugin32_send_IgnoresSend(t) ==
    /\ bpc[t] = "idle"
    /\ bridgeMutex = "free"
    /\ CanWrite => sent < MaxCommands
    /\ sendCommand(t, "LOAD")
    /\ bridgeMutex' = t
    /\ bpc' = [bpc EXCEPT ![t] = "load.recv"]
    /\ bcall' = [bcall EXCEPT ![t] =
                   [NoBridgeCall EXCEPT !.op = "loadPlugin32",
                                        !.cmd = IF CanWrite THEN sent + 1 ELSE 0,
                                        !.wrote = CanWrite,
                                        !.wasOpen = (bridgeProcess = "open")]]
    /\ UNCHANGED <<bridgeProcess, commandPipe, dataPipe, helper, respPipe, answers,
                   orphaned, protocolKept, nonBridgeVars>>

\* PluginBridge32::loadPlugin32 up to the call of receiveResponse: it takes
\* bridgeMutex and writes LOAD; when the write fails it returns false
loadPlugin32_send(t) ==
    /\ bpc[t] = "idle"
    /\ bridgeMutex = "free"
    /\ IF CanWrite
       THEN /\ sent < MaxCommands
            /\ WriteLine(t, "LOAD")
            /\ bridgeMutex' = t
            /\ bpc' = [bpc EXCEPT ![t] = "load.recv"]
            /\ bcall' = [bcall EXCEPT ![t] =
                           [NoBridgeCall EXCEPT !.op = "loadPlugin32",
                                                !.cmd = sent + 1, !.wrote = TRUE,
                                                !.wasOpen = (bridgeProcess = "open")]]
       ELSE /\ bcall' = [bcall EXCEPT ![t] =
                           [NoBridgeCall EXCEPT !.op = "loadPlugin32", !.done = TRUE,
                                                !.wasOpen = (bridgeProcess = "open")]]
            /\ UNCHANGED <<cmdPipe, sent, overlap, bridgeMutex, bpc>>
    /\ UNCHANGED <<bridgeProcess, commandPipe, dataPipe, helper, respPipe, answers,
                   orphaned, protocolKept, nonBridgeVars>>

\* PluginBridge32::receiveResponse: the line it returns.  One ReadFile takes
\* all that is in the pipe (up to 4095 bytes); the text up to the first
\* newline is the response and the rest is dropped.  NoLine: it returns false
receiveResponse == IF dataPipe /\ respPipe # <<>> THEN Head(respPipe) ELSE NoLine

\* ReadFile returns: there is data, or the helper has closed the pipe
ReadReturns == ~dataPipe \/ respPipe # <<>> \/ helper # "running"

\* PluginBridge32::loadPlugin32 from receiveResponse to its return
loadPlugin32_recv(t) ==
    /\ bpc[t] = "load.recv"
    /\ ReadReturns
    /\ respPipe' = IF dataPipe THEN <<>> ELSE respPipe
    /\ bcall' = [bcall EXCEPT ![t].line = receiveResponse,
                              ![t].ret = (receiveResponse.text = "OK"),
                              ![t].done = TRUE]
    /\ bridgeMutex' = "free"
    /\ bpc' = [bpc EXCEPT ![t] = "idle"]
    /\ UNCHANGED <<bridgeProcess, commandPipe, dataPipe, helper, cmdPipe, sent,
                   answers, overlap, orphaned, protocolKept, nonBridgeVars>>

\* PluginBridge32::unloadPlugin32: under bridgeMutex it writes UNLOAD and
\* reads no answer
unloadPlugin32(t) ==
    /\ bpc[t] = "idle"
    /\ bridgeMutex = "free"
    /\ CanWrite => sent < MaxCommands
    /\ sendCommand(t, "UNLOAD")
    /\ bcall' = [bcall EXCEPT ![t] =
                   [NoBridgeCall EXCEPT !.op = "unloadPlugin32", !.done = TRUE,
                                        !.cmd = IF CanWrite THEN sent + 1 ELSE 0,
                                        !.wrote = CanWrite,
                                        !.wasOpen = (bridgeProcess = "open")]]
    /\ UNCHANGED <<bridgeProcess, commandPipe, dataPipe, bridgeMutex, helper,
                   respPipe, bpc, answers, orphaned, protocolKept, nonBridgeVars>>

\* PluginBridge32::shutdown up to WaitForSingleObject: with a process handle
\* it writes EXIT and waits; without one it only closes the pipe handles.
\* It takes no lock.
shutdown_begin(t) ==
    /\ bpc[t] = "idle"
    /\ IF bridgeProcess = "open"
       THEN /\ CanWrite => sent < MaxCommands
            /\ sendCommand(t, "EXIT")
            /\ bpc' = [bpc EXCEPT ![t] = "shutdown.wait"]
            /\ bcall' = [bcall EXCEPT ![t] =
                           [NoBridgeCall EXCEPT !.op = "shutdown",
                                                !.cmd = IF CanWrite THEN sent + 1 ELSE 0,
                                                !.wrote = CanWrite, !.wasOpen = TRUE]]
            /\ UNCHANGED <<commandPipe, dataPipe, respPipe>>
       ELSE /\ commandPipe' = FALSE
            /\ dataPipe' = FALSE
            /\ respPipe' = <<>>
            /\ bcall' = [bcall EXCEPT ![t] =
                           [NoBridgeCall EXCEPT !.op = "shutdown", !.done = TRUE]]
            /\ UNCHANGED <<cmdPipe, sent, overlap, bpc>>
    /\ UNCHANGED <<bridgeProcess, bridgeMutex, helper, answers, orphaned,
                   protocolKept, nonBridgeVars>>

\* a shutdown that leaves a helper that has not exited alone
shutdown_end_NoTerminate(t) ==
    /\ bpc[t] = "shutdown.wait"
    /\ bridgeProcess' = "null"
    /\ commandPipe' = FALSE
    /\ dataPipe' = FALSE
    /\ cmdPipe' = IF helper = "running" THEN cmdPipe ELSE <<>>
    /\ respPipe' = <<>>
    /\ bpc' = [bpc EXCEPT ![t] = "idle"]
    /\ bcall' = [bcall EXCEPT ![t].done = TRUE]
    /\ UNCHANGED <<bridgeMutex, helper, sent, answers, overlap, orphaned,
                   protocolKept, nonBridgeVars>>

\* PluginBridge32::shutdown from the return of WaitForSingleObject: the
\* helper has exited, or the 5000 ms have passed and it is terminated; then
\* the three handles are closed and set to null
shutdown_end(t) ==
    /\ bpc[t] = "shutdown.wait"
    /\ helper' = IF helper = "running" THEN "exited" ELSE helper
    /\ bridgeProcess' = "null"
    /\ commandPipe' = FALSE
    /\ dataPipe' = FALSE
    /\ cmdPipe' = <<>>
    /\ respPipe' = <<>>
    /\ bpc' = [bpc EXCEPT ![t] = "idle"]
    /\ bcall' = [bcall EXCEPT ![t].done = TRUE,
                              ![t].terminated = (helper = "running")]
    /\ UNCHANGED <<bridgeMutex, sent, answers, overlap, orphaned, protocolKept,
                   nonBridgeVars>>

\* The helper process reads the next command line and makes its move.  On
\* EXIT the move "exit" is the cooperative one; on any other command it is
\* the helper ending without an answer.
helperStep(move) ==
    /\ helper = "running"
    /\ cmdPipe # <<>>
    /\ LET c == Head(cmdPipe)
       IN  /\ cmdPipe' = Tail(cmdPipe)
           /\ respPipe' = IF move \in {"OK", "ERR"}
                          THEN Append(respPipe, [text |-> move, for |-> c.n])
                          ELSE respPipe
           /\ answers' = [answers EXCEPT ![c.n] = move]
           /\ helper' = IF move = "exit" THEN "exited" ELSE helper
           /\ protocolKept' = (protocolKept /\ (move \in {"OK", "ERR"}
                                                 \/ (c.op = "EXIT" /\ move = "exit")))
    /\ UNCHANGED <<bridgeProcess, commandPipe, dataPipe, bridgeMutex, bpc, sent,
                   bcall, overlap, orphaned, nonBridgeVars>>

\* ------------------------------------------- a PluginInstance used directly
\* The public methods of one PluginInstance object, called by its owner from
\* one thread.  The object is kept in loadedPlugins under InstanceKey; the
\* chain and the audio callback take no part.
InstanceKey == 1
Instance == loadedPlugins[InstanceKey]

\* descriptors as PluginScanner fills them in (in process: type VST3 or
\* Unknown, 2 in, 2 out; from a scan worker's output: any type and counts)
InstancePath ==
    [name |-> "reverb", ext |-> ".dll", exists |-> TRUE, image |-> TRUE]

InstanceInfos ==
    { [path |-> InstancePath, name |-> InstancePath.name,
       type |-> t, numInputs |-> i, numOutputs |-> o, validated |-> TRUE] :
      t \in PluginType, i \in 1..NumChannels, o \in 1..NumChannels }

instRest == <<bridgeVars, auxVars, clientVars, scanVars, engineVars,
              pluginChain, nextPluginId, blacklistedPlugins, audioRunning,
              pluginMutex, rtpc, rtidx, cycleIn, calls, lastCall, visited,
              faulted, crashLog, midCycleMutation>>

\* the record of a method call on the instance
InstOp(name, arg, r) ==
    [NoOp EXCEPT !.op = name, !.arg = arg,
                 !.was = Instance.state, !.wasBypassed = Instance.bypassed,
                 !.wasEffect = Instance.effect,
                 !.called = r.called, !.escaped = r.escaped]

SetInstance(inst) ==
    loadedPlugins' = [loadedPlugins EXCEPT ![InstanceKey] = inst]

Instance_load(env) ==
    LET r == PluginInstance_load(Instance, env) IN
    /\ SetInstance(r.inst)
    /\ lastOp' = [InstOp("load", env, [called |-> FALSE, escaped |-> FALSE])
                    EXCEPT !.ret = r.ret]
    /\ UNCHANGED <<instRest, outputs>>

Instance_unload(editFault, cleanupFault) ==
    LET r == PluginInstance_unload(Instance, editFault, cleanupFault) IN
    /\ SetInstance(r.inst)
    /\ lastOp' = InstOp("unload", IF cleanupFault THEN "fault" ELSE "", r)
    /\ UNCHANGED <<instRest, outputs>>

Instance_suspend(fault) ==
    LET r == suspend(Instance, fault) IN
    /\ SetInstance(r.inst)
    /\ lastOp' = InstOp("suspend", "", r)
    /\ UNCHANGED <<instRest, outputs>>

Instance_resume(fault) ==
    LET r == resume(Instance, fault) IN
    /\ SetInstance(r.inst)
    /\ lastOp' = InstOp("resume", "", r)
    /\ UNCHANGED <<instRest, outputs>>

Instance_setBypass(bypass) ==
    /\ SetInstance(setBypass(Instance, bypass))
    /\ lastOp' = InstOp("setBypass", IF bypass THEN "true" ELSE "false",
                        [called |-> FALSE, escaped |-> FALSE])
    /\ UNCHANGED <<instRest, outputs>>

Instance_openEditor(windowOk, fault) ==
    LET r == openEditor(Instance, windowOk, fault) IN
    /\ SetInstance(r.inst)
    /\ lastOp' = InstOp("openEditor", "", r)
    /\ UNCHANGED <<instRest, outputs>>

Instance_closeEditor(fault) ==
    LET r == closeEditor(Instance, fault) IN
    /\ SetInstance(r.inst)
    /\ lastOp' = InstOp("closeEditor", "", r)
    /\ UNCHANGED <<instRest, outputs>>

\* processReplacing(inputs, outputs, n) on the owner's buffers: in place
\* (aliased) or from separate input buffers
Instance_processReplacing(in, aliased, w, fault) ==
    LET r == processReplacing(Instance, in, outputs, aliased, w, fault) IN
    /\ aliased => in = outputs
    /\ SetInstance(r.inst)
    /\ outputs' = r.out
    /\ lastOp' = [InstOp("processReplacing", IF r.trapped THEN "fault" ELSE "",
                         [called |-> r.called, escaped |-> FALSE])
                    EXCEPT !.in = in, !.pre = outputs]
    /\ UNCHANGED instRest

\* process(inputs, outputs, n) from separate input buffers
Instance_process(in, w, fault) ==
    LET r == process(Instance, in, outputs, w, fault) IN
    /\ SetInstance(r.inst)
    /\ outputs' = r.out
    /\ lastOp' = [InstOp("process", IF r.trapped THEN "fault" ELSE "",
                         [called |-> r.called, escaped |-> FALSE])
                    EXCEPT !.in = in, !.pre = outputs]
    /\ UNCHANGED instRest

\* ------------------------------------------------------------ specifications
\* the audio thread outside its loop body
NoRender == [pc |-> "wait", held |-> FALSE, gets |-> 0, releases |-> 0,
             callback |-> FALSE, fill |-> "none", data |-> <<>>, out |-> <<>>]

\* ErrorLogger after its constructor, before any call
NoLogger == [recentErrors |-> <<>>, logged |-> 0, count |-> 0, errors |-> <<>>,
             asked |-> FALSE]

\* no sweep of terminateHungProcesses has run
NoReaper == <<>>

InitIdle ==
    /\ blacklistedPlugins = {}
    /\ pluginMutex = "free"
    /\ rtpc = "idle"
    /\ rtidx = 0
    /\ outputs = Silence
    /\ cycleIn = Silence
    /\ calls = <<>>
    /\ lastCall = NoCall
    /\ visited = <<>>
    /\ faulted = {}
    /\ crashLog = <<>>
    /\ midCycleMutation = FALSE
    /\ lastOp = NoOp
    /\ ctlpc = "idle"
    /\ wasRunning = FALSE
    /\ pluginFiles = <<>>
    /\ onPluginFound = <<>>
    /\ onProgress = <<>>
    /\ scanEvents = <<>>
    /\ foundPlugins = <<>>
    /\ scanResult = NoScanResult
    /\ bridgeProcess = "null"
    /\ commandPipe = FALSE
    /\ dataPipe = FALSE
    /\ bridgeMutex = "free"
    /\ helper = "none"
    /\ cmdPipe = <<>>
    /\ respPipe = <<>>
    /\ bpc = [t \in Callers |-> "idle"]
    /\ sent = 0
    /\ bcall = [t \in Callers |-> NoBridgeCall]
    /\ answers = [n \in 1..(MaxCommands + 1) |-> Pending]
    /\ overlap = FALSE
    /\ orphaned = FALSE
    /\ protocolKept = TRUE
    /\ hostpc = "run"
    /\ currentDriverType = "WASAPI"
    /\ render = NoRender
    /\ logger = NoLogger
    /\ reaper = NoReaper

\* members and histories of a freshly constructed host; no scan job exists
InitRest ==
    /\ activeJobs = <<>>
    /\ InitIdle

\* the host after EnhancedVSTHost::EnhancedVSTHost()
Init ==
    /\ loadedPlugins = EmptyMap
    /\ pluginChain = <<>>
    /\ nextPluginId = FirstPluginId
    /\ audioRunning = FALSE
    /\ audioThread = "none"
    /\ shouldStop = FALSE
    /\ audioEngine = FALSE
    /\ deviceEnumerator = FALSE
    /\ audioClient = FALSE
    /\ clientStarted = FALSE
    /\ InitRest

\* the file behind the instance that a well-formed host state holds under id
HostedPath(id) ==
    IF id % 2 = 1
    THEN [name |-> "reverb", ext |-> ".dll",  exists |-> TRUE, image |-> TRUE]
    ELSE [name |-> "delay",  ext |-> ".vst3", exists |-> TRUE, image |-> TRUE]

\* an instance whose load() completed, at any later point of its lifecycle
HostedInstances(id) ==
    { [info |-> scanPluginInProcess(HostedPath(id)).info, state |-> s,
       bypassed |-> b, effect |-> TRUE, editor |-> FALSE] :
      s \in {"Loaded", "Active", "Crashed"}, b \in BOOLEAN }

HostedMaps ==
    UNION { { m \in [S -> UNION {HostedInstances(i) : i \in S}] :
                \A i \in S : m[i] \in HostedInstances(i) } :
            S \in SUBSET (1..NumIds) }

ChainsOver(S) ==
    { c \in UNION {[1..n -> S] : n \in 0..Cardinality(S)} :
        \A i, j \in DOMAIN c : c[i] = c[j] => i = j }

\* every host state that satisfies the data model of the chain, audio started
InitHost ==
    /\ loadedPlugins \in HostedMaps
    /\ pluginChain \in ChainsOver(DOMAIN loadedPlugins)
    /\ nextPluginId = NumIds + 1
    /\ audioRunning = TRUE
    /\ audioThread = "running"
    /\ shouldStop = FALSE
    /\ audioEngine = TRUE
    /\ deviceEnumerator = TRUE
    /\ audioClient = TRUE
    /\ clientStarted = TRUE
    /\ InitRest

\* operations of the control thread on the instance map and the chain
ChainOps ==
    \/ \E id \in IdArgs : unloadPlugin(id)
    \/ unloadAllPlugins
    \/ \E id \in IdArgs : addPluginToChain(id)
    \/ \E id \in IdArgs : removePluginFromChain(id)
    \/ \E id \in IdArgs, pos \in PositionArgs : movePluginInChain(id, pos)
    \/ \E id \in IdArgs, b \in BOOLEAN : bypassPlugin(id, b)

\* operations of the control thread that leave the map and the chain alone
LoadOps ==
    \/ \E path \in Paths, env \in LoadOutcomes : loadPlugin(path, env)
    \/ \E path \in Paths : addToBlacklist(path)
    \/ \E path \in Paths : removeFromBlacklist(path)
    \/ \E d \in DriverTypes, i \in BOOLEAN, s \in BOOLEAN : startAudio(d, i, s)
    \/ stopAudio
    \/ joinAudioThread

NextHost ==
    \/ ChainOps
    \/ \E in \in EngineInputs : CycleBegin(in)
    \/ CycleStep
    \/ CycleEnd

\* Next without the body of the chain loop
NextLoad ==
    \/ ChainOps
    \/ LoadOps
    \/ \E in \in EngineInputs : CycleBegin(in)
    \/ CycleEnd
    \/ \E waitError \in BOOLEAN : audioThreadExit(waitError)

Next ==
    \/ NextLoad
    \/ CycleStep

\* the program: the freshly constructed host under every operation
Spec == Init /\ [][Next]_vars

\* Spec has exactly the behaviours of SpecLoad: from Init the chain stays
\* empty (FreshHostEmpty), so the body of the chain loop never runs
SpecLoad == Init /\ [][NextLoad]_vars

\* the inductive step: every well-formed host state under the operations on
\* the map and the chain and under the audio callback
SpecHost == InitHost /\ [][NextHost]_vars

\* one PluginInstance right after its construction from a descriptor
InitInstance ==
    /\ loadedPlugins \in { [i \in {InstanceKey} |-> PluginInstance(info)] :
                           info \in InstanceInfos }
    /\ pluginChain = <<>>
    /\ nextPluginId = FirstPluginId
    /\ audioRunning = FALSE
    /\ audioThread = "none"
    /\ shouldStop = FALSE
    /\ audioEngine = FALSE
    /\ deviceEnumerator = FALSE
    /\ audioClient = FALSE
    /\ clientStarted = FALSE
    /\ InitRest

NextInstance ==
    \/ \E env \in LoadOutcomes : Instance_load(env)
    \/ \E ef \in BOOLEAN, cf \in BOOLEAN : Instance_unload(ef, cf)
    \/ \E f \in BOOLEAN : Instance_suspend(f)
    \/ \E f \in BOOLEAN : Instance_resume(f)
    \/ \E b \in BOOLEAN : Instance_setBypass(b)
    \/ \E ok \in BOOLEAN, f \in BOOLEAN : Instance_openEditor(ok, f)
    \/ \E f \in BOOLEAN : Instance_closeEditor(f)
    \/ \E in \in Buffers, a \in BOOLEAN, w \in Buffers, f \in BOOLEAN :
          Instance_processReplacing(in, a, w, f)
    \/ \E in \in Buffers, w \in Buffers, f \in BOOLEAN : Instance_process(in, w, f)

\* the PluginInstance class under every sequence of calls of its methods
SpecInstance == InitInstance /\ [][NextInstance]_vars

NextScan ==
    \E dir \in Directories, dirOk \in BOOLEAN,
       clock \in ClocksOver(activeJobs, MaxFiles \div ReapEvery + 1) :
        scanDirectory(dir, dirOk, clock)

\* the scanner of the freshly constructed host under scanDirectory
SpecScan == Init /\ [][NextScan]_vars

NextScanHost ==
    \/ \E f \in SearchFiles : f.path.image /\ addToBlacklist(f.path)
    \/ \E f \in SearchFiles : f.path.image /\ removeFromBlacklist(f.path)
    \/ \E searchPaths \in SearchPaths,
          clock \in ClocksOver(activeJobs, MaxFiles \div ReapEvery + MaxSearchPaths) :
          scanPlugins(searchPaths, clock)

\* the freshly constructed host under scans and changes of the blacklist
SpecScanHost == Init /\ [][NextScanHost]_vars

\* file names of a directory with many plugins
PluginNames ==
    <<       "p01", "p02", "p03", "p04", "p05", "p06", "p07", "p08", "p09",
       "p10", "p11", "p12", "p13", "p14", "p15", "p16", "p17", "p18",
       "p19", "p20", "p21", "p22", "p23", "p24">>

\* a directory that lists n loadable plugin files
LongDirectory(n) ==
    [i \in 1..n |->
        [path |-> [name |-> PluginNames[i],
                   ext |-> IF i % 2 = 0 THEN ".vst3" ELSE ".dll",
                   exists |-> TRUE, image |-> TRUE],
         hangs |-> FALSE]]

\* the ScanJob that launchScannerProcess fills for the i-th worker: the
\* process handle, the read end of its pipe and the clock reading
ScanJob(i, startTime) ==
    [path |-> LongDirectory(i)[i].path, processHandle |-> 2 * i - 1,
     pipeHandle |-> 2 * i, startTime |-> startTime]

\* clock readings at which workers were launched
JobStarts == {-1, 0, 1}

\* activeJobs with the jobs in the order launched
JobLists ==
    UNION { { [i \in 1..n |-> ScanJob(i, st[i])] :
                st \in { t \in [1..n -> JobStarts] :
                           \A i, j \in 1..n : i < j => t[i] <= t[j] } } :
            n \in 0..MaxJobs }

\* a scanner that holds jobs of launched workers
InitReap ==
    /\ loadedPlugins = EmptyMap
    /\ pluginChain = <<>>
    /\ nextPluginId = FirstPluginId
    /\ audioRunning = FALSE
    /\ audioThread = "none"
    /\ shouldStop = FALSE
    /\ audioEngine = FALSE
    /\ deviceEnumerator = FALSE
    /\ audioClient = FALSE
    /\ clientStarted = FALSE
    /\ activeJobs \in JobLists
    /\ InitIdle

NextReap ==
    \E n \in 0..MaxCandidates, dirOk \in BOOLEAN,
       clock \in ClocksOver(activeJobs, MaxCandidates \div ReapEvery + 1) :
        scanDirectory(LongDirectory(n), dirOk, clock)

\* scanDirectory over large directories in a scanner that holds jobs
SpecReap == InitReap /\ [][NextReap]_vars

NextWorker ==
    \E out \in WorkerOutputs, validated0 \in BOOLEAN :
        Scanner_readScanResult(out, validated0)

\* the scanner's reading of a worker's output, for every output
SpecWorker == Init /\ [][NextWorker]_vars

NextBridge ==
    \/ \E t \in Callers, started \in BOOLEAN : initialize(t, started)
    \/ \E t \in Callers : loadPlugin32_send(t)
    \/ \E t \in Callers : loadPlugin32_recv(t)
    \/ \E t \in Callers : unloadPlugin32(t)
    \/ \E t \in Callers : shutdown_begin(t)
    \/ \E t \in Callers : shutdown_end(t)
    \/ \E move \in HelperMoves : helperStep(move)

\* the bridge of the freshly constructed host under calls of its methods
\* from two threads, with the helper process as its environment
SpecBridge == Init /\ [][NextBridge]_vars

NextBridgeHost ==
    \/ \E comOk \in BOOLEAN, started \in BOOLEAN, file \in BlacklistFiles :
          Host_initialize(comOk, started, file)
    \/ \E t \in Callers : loadPlugin32_send(t)
    \/ \E t \in Callers : loadPlugin32_recv(t)
    \/ \E t \in Callers : unloadPlugin32(t)
    \/ shutdown_begin("ui")
    \/ shutdown_end("ui")
    \/ \E move \in HelperMoves : helperStep(move)

\* the bridge as the host owns it: initialized by EnhancedVSTHost::initialize
\* and shut down on the UI thread, called by two threads in between
SpecBridgeHost == Init /\ [][NextBridgeHost]_vars

\* ------------------------------------------------------------- ErrorLogger
\* messages that the host logs
ErrorTexts == {"Failed to initialize COM"}

\* counts that getRecentErrors is called with; 100 is its default
Counts == {-1, 0, 1, 100, MaxRecentErrors - 1, MaxRecentErrors, MaxRecentErrors + 1}

\* the frame of the logger's methods
logRest == <<bridgeVars, hostpc, currentDriverType, render, reaper, clientVars,
             scanVars, engineVars, hostVars, blacklistedPlugins, audioRunning,
             pluginMutex, rtVars, midCycleMutation, lastOp>>

\* "[" + getCurrentTimestamp() + "] ERROR: " + error.  The timestamp stands
\* for the moment of the call: the number of the logError call
Timestamped(n, error) == [timestamp |-> n, prefix |-> "ERROR: ", error |-> error]

\* "while (recentErrors.size() > 1000) recentErrors.pop()"
RECURSIVE PopOver(_)
PopOver(queue) ==
    IF Len(queue) > MaxRecentErrors THEN PopOver(Tail(queue)) ELSE queue

\* a logError that drops the new entry when the queue is full
logError_DropsNewest(error) ==
    /\ logger.logged < MaxLogged
    /\ logger' = [NoLogger EXCEPT
                     !.recentErrors =
                         IF Len(logger.recentErrors) >= MaxRecentErrors
                         THEN logger.recentErrors
                         ELSE Append(logger.recentErrors,
                                     Timestamped(logger.logged + 1, error)),
                     !.logged = logger.logged + 1]
    /\ UNCHANGED logRest

\* ErrorLogger::logError under logMutex; the record of the last
\* getRecentErrors call is forgotten
logError(error) ==
    /\ logger.logged < MaxLogged
    /\ logger' = [NoLogger EXCEPT
                     !.recentErrors =
                         PopOver(Append(logger.recentErrors,
                                        Timestamped(logger.logged + 1, error))),
                     !.logged = logger.logged + 1]
    /\ UNCHANGED logRest

\* the two loops of getRecentErrors over the copy of the queue: the first
\* pops size - count entries, as far as there are any; the second moves
\* entries to the result while its size is below static_cast<size_t>(count),
\* which for a negative count is above every size
RecentOf(queue, count) ==
    LET toSkip == Len(queue) - count
        popped == IF toSkip <= 0 THEN 0
                  ELSE IF toSkip > Len(queue) THEN Len(queue) ELSE toSkip
        tempQueue == SubSeq(queue, popped + 1, Len(queue))
        taken == IF count < 0 \/ Len(tempQueue) < count THEN Len(tempQueue) ELSE count
    IN  SubSeq(tempQueue, 1, taken)

\* ErrorLogger::getRecentErrors under logMutex
getRecentErrors(count) ==
    /\ logger' = [logger EXCEPT !.asked = TRUE, !.count = count,
                                !.errors = RecentOf(logger.recentErrors, count)]
    /\ UNCHANGED logRest

NextLog ==
    \/ \E error \in ErrorTexts : logError(error)
    \/ \E count \in Counts : getRecentErrors(count)

\* the error logger of the freshly constructed host under its two methods
SpecLog == Init /\ [][NextLog]_vars

\* --------------------- setSampleRate, setBufferSize and setAudioDriver
\* the three setters up to audioThread.join(): with audio running they call
\* stopAudio(), store the new value and call startAudio() again, whose
\* result they drop; otherwise they only store the value.  The value is not
\* read by anyone before startAudio() is, so it is stored here
Reconfigure(name, type) ==
    /\ currentDriverType' = type
    /\ lastOp' = [NoOp EXCEPT !.op = name, !.arg = type, !.running = audioRunning,
                              !.pending = audioRunning]
    /\ IF audioRunning
       THEN /\ audioRunning' = FALSE
            /\ clientStarted' = FALSE
            /\ shouldStop' = TRUE
            /\ ctlpc' = "restart.join"
            /\ UNCHANGED <<audioThread, audioEngine, deviceEnumerator, audioClient,
                           wasRunning>>
       ELSE UNCHANGED <<audioRunning, engineVars, clientVars>>
    /\ UNCHANGED <<bridgeVars, hostpc, render, logger, reaper, scanVars, hostVars, blacklistedPlugins,
                   pluginMutex, rtVars, midCycleMutation>>

\* EnhancedVSTHost::setSampleRate
setSampleRate ==
    /\ ctlpc = "idle"
    /\ hostpc = "run"
    /\ Reconfigure("setSampleRate", currentDriverType)

\* EnhancedVSTHost::setBufferSize
setBufferSize ==
    /\ ctlpc = "idle"
    /\ hostpc = "run"
    /\ Reconfigure("setBufferSize", currentDriverType)

\* EnhancedVSTHost::setAudioDriver
setAudioDriver(type) ==
    /\ ctlpc = "idle"
    /\ hostpc = "run"
    /\ Reconfigure("setAudioDriver", type)

\* the rest of a setter: the join of stopAudio() returns, the old engine is
\* shut down and released, and startAudio(currentDriverType) runs
restartAudio(initOk, startOk) ==
    /\ ctlpc = "restart.join"
    /\ audioThread = "exited"
    /\ IF currentDriverType # "WASAPI" \/ ~initOk
       THEN /\ audioThread' = "none"
            /\ ctlpc' = "idle"
            /\ audioEngine' = FALSE
            /\ deviceEnumerator' = FALSE
            /\ audioClient' = FALSE
            /\ clientStarted' = FALSE
            /\ UNCHANGED <<audioRunning, shouldStop>>
       ELSE /\ audioThread' = "running"
            /\ shouldStop' = ~startOk
            /\ ctlpc' = IF startOk THEN "idle" ELSE "start.join"
            /\ audioRunning' = startOk
            /\ audioEngine' = TRUE
            /\ deviceEnumerator' = TRUE
            /\ audioClient' = TRUE
            /\ clientStarted' = startOk
    /\ lastOp' = IF lastOp.op \in {"setSampleRate", "setBufferSize", "setAudioDriver"}
                 THEN [lastOp EXCEPT !.pending = FALSE, !.initOk = initOk, !.startOk = startOk]
                 ELSE lastOp
    /\ UNCHANGED <<bridgeVars, auxVars, scanVars, hostVars, blacklistedPlugins, pluginMutex,
                   rtVars, midCycleMutation, wasRunning>>

NextAudioControl ==
    \/ \E d \in DriverTypes, i \in BOOLEAN, s \in BOOLEAN : startAudio(d, i, s)
    \/ stopAudio
    \/ joinAudioThread
    \/ setSampleRate
    \/ setBufferSize
    \/ \E type \in DriverTypes : setAudioDriver(type)
    \/ \E i \in BOOLEAN, s \in BOOLEAN : restartAudio(i, s)
    \/ \E in \in EngineInputs : CycleBegin(in)
    \/ CycleEnd
    \/ \E waitError \in BOOLEAN : audioThreadExit(waitError)

\* the freshly constructed host under the operations that start, stop and
\* reconfigure audio, with the audio thread
SpecAudioControl == Init /\ [][NextAudioControl]_vars

\* ------------------------------------------------ EnhancedVSTHost::shutdown
\* a shutdown() that goes to unloadAllPlugins without stopping audio
shutdown_UnloadFirst ==
    /\ hostpc = "run"
    /\ ctlpc = "idle"
    /\ hostpc' = "shutdown.unloadAllPlugins"
    /\ UNCHANGED <<bridgeVars, currentDriverType, render, logger, reaper, clientVars, scanVars,
                   engineVars, hostVars, blacklistedPlugins, audioRunning, pluginMutex,
                   rtVars, midCycleMutation, lastOp>>

\* entry of EnhancedVSTHost::shutdown on the control thread; its calls
\* stopAudio(), unloadAllPlugins() and bridge32->shutdown() follow in that
\* order, each when the one before has returned
shutdown ==
    /\ hostpc = "run"
    /\ ctlpc = "idle"
    /\ hostpc' = "shutdown.stopAudio"
    /\ UNCHANGED <<bridgeVars, currentDriverType, render, logger, reaper, clientVars, scanVars,
                   engineVars, hostVars, blacklistedPlugins, audioRunning, pluginMutex,
                   rtVars, midCycleMutation, lastOp>>

\* bridge32->shutdown() has been called by shutdown() and has returned
BridgeShutDown == bcall["ui"].op = "shutdown" /\ bcall["ui"].done

NextShutdown ==
    \/ hostpc = "run" /\ bcall["ui"].op = "none" /\ \E started \in BOOLEAN : initialize("ui", started)
    \/ shutdown
    \/ hostpc \in {"run", "shutdown.stopAudio"} /\ stopAudio
    \/ joinAudioThread
    \/ hostpc = "shutdown.unloadAllPlugins" /\ unloadAllPlugins
    \/ hostpc = "shutdown.bridge32" /\ bcall["ui"].op # "shutdown" /\ shutdown_begin("ui")
    \/ shutdown_end("ui")
    \/ \E move \in HelperMoves : helperStep(move)
    \/ \E in \in EngineInputs : CycleBegin(in)
    \/ CycleStep
    \/ CycleEnd
    \/ \E waitError \in BOOLEAN : audioThreadExit(waitError)

\* the host in every well-formed state with audio running, the bridge as
\* initialize() set it up, and then stopAudio() or shutdown()
SpecShutdown == InitHost /\ [][NextShutdown]_vars

\* ------------------------------------- the catch clause of the chain loop
\* an iteration of the chain loop whose processReplacing call lets a
\* std::exception escape: the case "catch (const std::exception& e)" is
\* written for.  The callback holds pluginMutex
processReplacingRaises ==
    /\ rtpc = "loop"
    /\ Len(crashLog) < MaxCrashes
    /\ rtidx <= Len(pluginChain)
    /\ pluginChain[rtidx] \in DOMAIN loadedPlugins
    /\ ~loadedPlugins[pluginChain[rtidx]].bypassed
    /\ visited' = Append(visited, pluginChain[rtidx])
    /\ rtpc' = "handlePluginCrash"
    /\ UNCHANGED <<bridgeVars, auxVars, clientVars, scanVars, engineVars, hostVars, blacklistedPlugins,
                   audioRunning, pluginMutex, rtidx, outputs, cycleIn, calls, lastCall,
                   faulted, crashLog, midCycleMutation, lastOp>>

\* what "std::lock_guard<std::mutex> lock(pluginMutex)" does on the thread
\* that already owns pluginMutex, which the standard leaves undefined: the
\* thread waits for itself, lock() raises std::system_error, or the lock
\* counts its owner and lets it in
RelockOutcomes == {"blocks", "throws", "acquired"}

\* handlePluginCrash with its removePluginFromChain, called from the catch
\* clause of the callback.  The instance is in the map (the loop found it
\* under the lock); logPluginCrash and the notification precede
\* removePluginFromChain, crashCb follows it.  A std::system_error leaves
\* the catch clause, the callback and audioThreadFunc, none of which
\* catches it.  After the erase the iterator of the range-for steps on
\* from the slot it pointed at
handlePluginCrash(relock) ==
    /\ rtpc = "handlePluginCrash"
    /\ IF relock = "acquired"
       THEN /\ pluginChain' = EraseFirst(pluginChain, pluginChain[rtidx])
            /\ crashLog' = Append(crashLog,
                   [id |-> pluginChain[rtidx],
                    name |-> loadedPlugins[pluginChain[rtidx]].info.name])
            /\ rtpc' = "loop"
            /\ rtidx' = rtidx + 1
       ELSE /\ rtpc' = IF relock = "blocks" THEN "blocked" ELSE "terminated"
            /\ UNCHANGED <<pluginChain, crashLog, rtidx>>
    /\ UNCHANGED <<bridgeVars, auxVars, clientVars, scanVars, engineVars, loadedPlugins, nextPluginId,
                   blacklistedPlugins, audioRunning, pluginMutex, outputs, cycleIn, calls,
                   lastCall, visited, faulted, midCycleMutation, lastOp>>

NextCrash ==
    \/ ChainOps
    \/ \E in \in EngineInputs : CycleBegin(in)
    \/ CycleStep
    \/ processReplacingRaises
    \/ \E relock \in RelockOutcomes : handlePluginCrash(relock)
    \/ CycleEnd

\* SpecHost with the chain loop's catch clause entered
SpecCrash == InitHost /\ [][NextCrash]_vars

\* ------------------------------------------ WASAPIEngine, method by method
\* what the methods of the engine leave alone
engineRest ==
    <<bridgeVars, auxVars, scanVars, hostVars, blacklistedPlugins, audioRunning, pluginMutex,
      rtVars, midCycleMutation, audioEngine>>

\* friendly names of render endpoints; selectDevice compares its argument
\* with the names of the endpoints that are active at the time
DeviceNames == {"Speakers", "Headphones"}

\* the first step of WASAPIEngine::initialize that fails, or "ok"
InitOutcomes == {"enumerator", "endpoint", "activate", "client", "ok"}

\* the engine is running: its stream is started and its thread is in the loop
EngineRunning == clientStarted /\ audioThread = "running"

EngineOp(name) == [NoOp EXCEPT !.op = name, !.running = EngineRunning]

\* the members after WASAPIEngine::initialize: "(void**)&member" releases the
\* ComPtr before the call fills it, so a failed CoCreateInstance leaves no
\* enumerator and a failed Activate no client; a failure before Activate
\* leaves the client of an earlier initialize() in place, a failure after
\* it leaves the new, unstarted client
EnumeratorAfter(outcome) == outcome # "enumerator"
ClientAfter(outcome) ==
    IF outcome \in {"enumerator", "endpoint"} THEN audioClient
    ELSE outcome # "activate"
StartedAfter(outcome) ==
    IF outcome \in {"enumerator", "endpoint"} THEN clientStarted ELSE FALSE

\* WASAPIEngine::initialize
Engine_initialize(outcome) ==
    /\ ctlpc = "idle"
    /\ audioThread = "none"
    /\ deviceEnumerator' = EnumeratorAfter(outcome)
    /\ audioClient' = ClientAfter(outcome)
    /\ clientStarted' = StartedAfter(outcome)
    /\ lastOp' = [EngineOp("initialize") EXCEPT !.ret = (outcome = "ok")]
    /\ UNCHANGED <<engineRest, engineVars, wasRunning>>

\* WASAPIEngine::start: false without a client; otherwise the thread is
\* created, then audioClient->Start() is called, and on its failure the
\* thread is told to stop and joined
Engine_start(startOk) ==
    /\ ctlpc = "idle"
    /\ audioThread = "none"
    /\ IF ~audioClient
       THEN /\ lastOp' = EngineOp("start")
            /\ UNCHANGED <<engineVars, clientStarted>>
       ELSE /\ shouldStop' = ~startOk
            /\ audioThread' = "running"
            /\ clientStarted' = startOk
            /\ ctlpc' = IF startOk THEN "idle" ELSE "start.join"
            /\ lastOp' = [EngineOp("start") EXCEPT !.ret = startOk, !.pending = ~startOk]
    /\ UNCHANGED <<engineRest, deviceEnumerator, audioClient, wasRunning>>

\* WASAPIEngine::stop up to audioThread.join()
Engine_stop ==
    /\ ctlpc = "idle"
    /\ clientStarted' = FALSE
    /\ shouldStop' = TRUE
    /\ ctlpc' = IF audioThread = "none" THEN "idle" ELSE "stop.join"
    /\ lastOp' = [EngineOp("stop") EXCEPT !.pending = audioThread # "none"]
    /\ UNCHANGED <<engineRest, audioThread, deviceEnumerator, audioClient, wasRunning>>

\* WASAPIEngine::shutdown: stop(), then every ComPtr is reset
Engine_shutdown ==
    /\ ctlpc = "idle"
    /\ clientStarted' = FALSE
    /\ shouldStop' = TRUE
    /\ IF audioThread = "none"
       THEN /\ deviceEnumerator' = FALSE
            /\ audioClient' = FALSE
            /\ UNCHANGED ctlpc
       ELSE /\ ctlpc' = "shutdown.join"
            /\ UNCHANGED <<deviceEnumerator, audioClient>>
    /\ lastOp' = [EngineOp("shutdown") EXCEPT !.pending = audioThread # "none"]
    /\ UNCHANGED <<engineRest, audioThread, wasRunning>>

\* WASAPIEngine::selectDevice up to the end of its stop(): false at once
\* without an enumerator; wasRunning is "audioClient != nullptr"
selectDevice(deviceName) ==
    /\ ctlpc = "idle"
    /\ IF ~deviceEnumerator
       THEN /\ lastOp' = [EngineOp("selectDevice") EXCEPT !.arg = deviceName]
            /\ UNCHANGED <<engineVars, clientStarted, wasRunning>>
       ELSE /\ wasRunning' = audioClient
            /\ clientStarted' = IF audioClient THEN FALSE ELSE clientStarted
            /\ shouldStop' = IF audioClient THEN TRUE ELSE shouldStop
            /\ ctlpc' = IF audioClient /\ audioThread # "none"
                        THEN "select.join" ELSE "select.find"
            /\ lastOp' = [EngineOp("selectDevice") EXCEPT !.arg = deviceName, !.pending = TRUE]
            /\ UNCHANGED audioThread
    /\ UNCHANGED <<engineRest, deviceEnumerator, audioClient>>

\* the rest of WASAPIEngine::selectDevice: the search of the active render
\* endpoints (active) for the name, and for a device that was found on an
\* engine with a client, initialize() and start() with their results
\* ignored; a name that is not found returns false with the engine as
\* stop() left it
selectDevice_find(active, outcome, startOk) ==
    /\ ctlpc = "select.find"
    /\ wasRunning' = FALSE
    /\ IF lastOp.arg \in active /\ wasRunning
       THEN /\ deviceEnumerator' = EnumeratorAfter(outcome)
            /\ audioClient' = ClientAfter(outcome)
            /\ IF ClientAfter(outcome)
               THEN /\ shouldStop' = ~startOk
                    /\ audioThread' = "running"
                    /\ clientStarted' = startOk
                    /\ ctlpc' = IF startOk THEN "idle" ELSE "select.start.join"
                    /\ lastOp' = [lastOp EXCEPT !.hit = TRUE, !.ret = TRUE, !.initOk = (outcome = "ok"),
                                                !.startOk = startOk, !.pending = ~startOk]
               ELSE /\ ctlpc' = "idle"
                    /\ clientStarted' = StartedAfter(outcome)
                    /\ lastOp' = [lastOp EXCEPT !.hit = TRUE, !.ret = TRUE, !.initOk = (outcome = "ok"),
                                                !.pending = FALSE]
                    /\ UNCHANGED <<audioThread, shouldStop>>
       ELSE /\ ctlpc' = "idle"
            /\ lastOp' = [lastOp EXCEPT !.hit = lastOp.arg \in active,
                                        !.ret = lastOp.arg \in active, !.pending = FALSE]
            /\ UNCHANGED <<audioThread, shouldStop, clientStarted, deviceEnumerator,
                           audioClient>>
    /\ UNCHANGED engineRest

\* audioThread.join() returns inside stop(), start(), shutdown() or
\* selectDevice, and the method goes on
Engine_join ==
    /\ ctlpc \in {"stop.join", "start.join", "shutdown.join", "select.join",
                  "select.start.join"}
    /\ audioThread = "exited"
    /\ audioThread' = "none"
    /\ ctlpc' = IF ctlpc = "select.join" THEN "select.find" ELSE "idle"
    /\ deviceEnumerator' = IF ctlpc = "shutdown.join" THEN FALSE ELSE deviceEnumerator
    /\ audioClient' = IF ctlpc = "shutdown.join" THEN FALSE ELSE audioClient
    /\ lastOp' = IF ctlpc = "select.join" THEN lastOp ELSE [lastOp EXCEPT !.pending = FALSE]
    /\ UNCHANGED <<engineRest, shouldStop, clientStarted, wasRunning>>

NextEngine ==
    \/ \E outcome \in InitOutcomes : Engine_initialize(outcome)
    \/ \E startOk \in BOOLEAN : Engine_start(startOk)
    \/ Engine_stop
    \/ Engine_shutdown
    \/ \E deviceName \in DeviceNames : selectDevice(deviceName)
    \/ \E active \in SUBSET DeviceNames, outcome \in InitOutcomes, startOk \in BOOLEAN :
           selectDevice_find(active, outcome, startOk)
    \/ Engine_join
    \/ \E waitError \in BOOLEAN : audioThreadExit(waitError)

\* a newly constructed WASAPIEngine under calls of its methods from one
\* thread, with its audio thread
SpecEngine == Init /\ [][NextEngine]_vars

\* ------------------------------------------ WASAPIEngine::audioThreadFunc
\* what can end the first part of a loop iteration: the wait times out, the
\* padding cannot be read, the device buffer is full, GetBuffer fails, or a
\* writable buffer is obtained.  (A failed wait leaves the loop:
\* audioThreadExit.)
WaitOutcomes == {"timeout", "padding", "full", "getBuffer", "buffer"}

\* the interleaving of the output buffers into the device buffer, frame by
\* frame and channel by channel inside a frame
Interleave(b) == [i \in 1..NumChannels |-> b[i]]

\* memset(pData, 0, ...)
SilentData == [i \in 1..NumChannels |-> 0]

\* AudioEngine::setAudioCallback, with a callback or an empty function; the
\* host sets the callback before it starts the engine.  The record of the
\* last loop iteration of an earlier thread is dropped
setAudioCallback(cb) ==
    /\ ctlpc = "idle"
    /\ audioThread = "none"
    /\ render' = [NoRender EXCEPT !.callback = cb]
    /\ UNCHANGED <<bridgeVars, hostpc, currentDriverType, logger, reaper, clientVars, scanVars,
                   engineVars, hostVars, blacklistedPlugins, audioRunning, pluginMutex,
                   rtVars, midCycleMutation, lastOp>>

\* a loop iteration from the wait to GetBuffer; every outcome but "buffer"
\* is a "continue"
Render_wait(outcome) ==
    /\ audioThread = "running"
    /\ render.pc = "wait"
    /\ render' = IF outcome = "buffer"
                 THEN [render EXCEPT !.pc = "fill", !.held = TRUE, !.gets = 1,
                                     !.releases = 0, !.fill = "none",
                                     !.data = <<>>, !.out = <<>>]
                 ELSE [render EXCEPT !.gets = 0, !.releases = 0, !.fill = "none",
                                     !.data = <<>>, !.out = <<>>]
    /\ UNCHANGED <<bridgeVars, hostpc, currentDriverType, logger, reaper, clientVars, scanVars,
                   engineVars, hostVars, blacklistedPlugins, audioRunning, pluginMutex,
                   rtVars, midCycleMutation, lastOp>>

\* "if (audioCallback) ... else ...": the output buffers are cleared, the
\* callback fills them (w) and they are interleaved into the device buffer;
\* without a callback the device buffer is zeroed
Render_fill(w) ==
    /\ render.pc = "fill"
    /\ render' = IF render.callback
                 THEN [render EXCEPT !.pc = "release", !.fill = "callback",
                                     !.out = w, !.data = Interleave(w)]
                 ELSE [render EXCEPT !.pc = "release", !.fill = "silence",
                                     !.data = SilentData]
    /\ UNCHANGED <<bridgeVars, hostpc, currentDriverType, logger, reaper, clientVars, scanVars,
                   engineVars, hostVars, blacklistedPlugins, audioRunning, pluginMutex,
                   rtVars, midCycleMutation, lastOp>>

\* a loop that releases the buffer only after the callback has run
Render_release_CallbackOnly ==
    /\ render.pc = "release"
    /\ render' = IF render.callback
                 THEN [render EXCEPT !.pc = "wait", !.held = FALSE,
                                     !.releases = render.releases + 1]
                 ELSE [render EXCEPT !.pc = "wait"]
    /\ UNCHANGED <<bridgeVars, hostpc, currentDriverType, logger, reaper, clientVars, scanVars,
                   engineVars, hostVars, blacklistedPlugins, audioRunning, pluginMutex,
                   rtVars, midCycleMutation, lastOp>>

\* renderClient->ReleaseBuffer(numFramesToWrite, 0), the last statement of
\* the loop body
Render_release ==
    /\ render.pc = "release"
    /\ render' = [render EXCEPT !.pc = "wait", !.held = FALSE,
                                !.releases = render.releases + 1]
    /\ UNCHANGED <<bridgeVars, hostpc, currentDriverType, logger, reaper, clientVars, scanVars,
                   engineVars, hostVars, blacklistedPlugins, audioRunning, pluginMutex,
                   rtVars, midCycleMutation, lastOp>>

NextRender ==
    \/ \E cb \in BOOLEAN : setAudioCallback(cb)
    \/ \E outcome \in InitOutcomes : Engine_initialize(outcome)
    \/ \E startOk \in BOOLEAN : Engine_start(startOk)
    \/ Engine_stop
    \/ Engine_join
    \/ \E outcome \in WaitOutcomes : Render_wait(outcome)
    \/ \E w \in Buffers : Render_fill(w)
    \/ Render_release
    \/ render.pc = "wait" /\ \E waitError \in BOOLEAN : audioThreadExit(waitError)

\* a WASAPIEngine with its audio thread, loop iteration by loop iteration
SpecRender == Init /\ [][NextRender]_vars

\* SpecLoad with the audio thread scheduled: a callback that has ended its
\* loop returns, the bounded wait of audioThreadFunc ends, and a join whose
\* thread has exited returns
SpecAudio ==
    /\ SpecLoad
    /\ WF_vars(CycleEnd)
    /\ WF_vars(\E waitError \in BOOLEAN : audioThreadExit(waitError))
    /\ WF_vars(joinAudioThread)

FreshHostEmpty ==
    /\ loadedPlugins = EmptyMap
    /\ pluginChain = <<>>
    /\ nextPluginId = FirstPluginId

TypeOK ==
    /\ audioThread \in {"none", "running", "exited"}
    /\ shouldStop \in BOOLEAN
    /\ ctlpc \in {"idle", "stop.join", "start.join", "restart.join", "shutdown.join", "select.join",
                  "select.find", "select.start.join"}
    /\ clientVars \in BOOLEAN \X BOOLEAN \X BOOLEAN \X BOOLEAN \X BOOLEAN
    /\ hostpc \in {"run", "shutdown.stopAudio", "shutdown.unloadAllPlugins", "shutdown.bridge32"}
    /\ currentDriverType \in DriverTypes
    /\ Len(activeJobs) <= MaxJobs
    /\ Len(onProgress) = Len(pluginFiles)
    /\ rtpc \in {"idle", "loop", "handlePluginCrash", "blocked", "terminated"}
    /\ outputs \in Buffers
    /\ pluginMutex \in {"free", "audio"}
\* ------------------------------------------------------------------ claims
Range(seq) == {seq[i] : i \in DOMAIN seq}
NoDup(seq) == \A i, j \in DOMAIN seq : seq[i] = seq[j] => i = j

\* the chain loop has looked at every ID; the callback is about to return
\* and still holds the lock
CycleOver == rtpc = "loop" /\ rtidx > Len(pluginChain)

\* a transition that is one iteration of the chain loop
LoopStep == rtpc = "loop" /\ rtpc' = "loop" /\ rtidx' = rtidx + 1

C2_ChainIdsLoaded ==
    \A i \in DOMAIN pluginChain : pluginChain[i] \in DOMAIN loadedPlugins

\* unloadPlugin has just unloaded a plugin that was in the chain, and the
\* chain still holds another one
C2_Witness ==
    /\ lastOp.op = "unloadPlugin"
    /\ lastOp.hit
    /\ pluginChain # <<>>

\* C3: an iteration of the chain loop over a plugin that is bypassed or whose
\* state is Crashed (or Bypassed) makes no call into plugin code and leaves
\* the buffers as pass-through: channels that have an input channel keep
\* their content, output channels without one are zero.
C3Step ==
    LET id == pluginChain[rtidx]
        inst == loadedPlugins[id]
    IN  ( /\ LoopStep
          /\ rtidx <= Len(pluginChain)
          /\ id \in DOMAIN loadedPlugins
          /\ (inst.bypassed \/ inst.state \in {"Crashed", "Bypassed"}) )
        => /\ calls' = calls
           /\ \A ch \in Channels :
                 outputs'[ch] = IF ch - 1 < inst.info.numInputs
                                   \/ ch - 1 >= inst.info.numOutputs
                                THEN outputs[ch] ELSE 0

C7Step ==
    /\ (lastOp'.op = "addPluginToChain" /\ lastOp'.hit) => pluginChain' = pluginChain
    /\ lastOp'.op = "movePluginInChain" =>
          /\ Range(pluginChain') = Range(pluginChain)
          /\ Len(pluginChain') = Len(pluginChain)

C7_NoDuplicates == [](NoDup(pluginChain)) /\ [][C7Step]_vars

\* addPluginToChain has just been called with an ID that was already in a
\* chain of several plugins
C7_Witness ==
    /\ lastOp.op = "addPluginToChain"
    /\ lastOp.hit
    /\ Len(pluginChain) >= 2

\* C8: no operation of the control thread has changed the map, the chain or
\* a bypass flag while the audio callback was running, and the callback
\* holds the lock for as long as it runs.
C8_NoMidCycleMutation ==
    /\ ~midCycleMutation
    /\ rtpc # "idle" => pluginMutex = "audio"

\* the callback is in its loop after the control thread changed the chain
C8_Witness ==
    /\ rtpc = "loop"
    /\ rtidx >= 2
    /\ lastOp.op \in {"unloadPlugin", "addPluginToChain", "removePluginFromChain",
                      "movePluginInChain", "bypassPlugin"}
    /\ lastOp.hit

\* C9: every iteration of the chain loop looks at the next ID of the chain in
\* chain order; a plugin whose routine is entered is that ID's, it receives
\* the buffers as its predecessors left them and its result becomes the
\* running buffer; an iteration that enters no routine leaves the buffers.
C9Step ==
    LoopStep =>
        /\ visited' = SubSeq(pluginChain, 1, rtidx)
        /\ pluginChain' = pluginChain
        /\ Len(calls') = Len(calls) + 1 =>
              /\ lastCall'.id = pluginChain[rtidx]
              /\ lastCall'.in = outputs
              /\ outputs' = lastCall'.out
        /\ Len(calls') = Len(calls) => outputs' = outputs

C9_ChainOrder == [][C9Step]_vars

\* the second plugin of the chain has been entered with the audio that the
\* first one produced
C9_Witness ==
    /\ rtpc = "loop"
    /\ Len(calls) = 2
    /\ lastCall.in # Silence
    /\ lastCall.id = pluginChain[2]


\* C10: whenever the last loadPlugin call was made on a file that exists, is
\* not blacklisted, passes validatePlugin and is validated by the scan, the
\* call returned success and the instance map holds an instance for that
\* file under a positive ID whose descriptor is validated.
C10_WellFormedLoadSucceeds ==
    ( /\ lastOp.op = "loadPlugin"
      /\ ~lastOp.blacklisted
      /\ validatePlugin(lastOp.path)
      /\ scanPluginInProcess(lastOp.path).ok
      /\ scanPluginInProcess(lastOp.path).info.validated )
    => ( /\ lastOp.ret
         /\ \E id \in DOMAIN loadedPlugins :
               /\ id > 0
               /\ loadedPlugins[id].info.path = lastOp.path
               /\ loadedPlugins[id].info.validated )

\* C11: a loadPlugin call on a path that is blacklisted, fails validation or
\* fails the scan, or whose PluginInstance::load fails, returns failure, and
\* every loadPlugin call that returns failure leaves the next-ID counter, the
\* instance map and the chain as they were before the call.
C11Failing ==
    \/ lastOp.blacklisted
    \/ ~validatePlugin(lastOp.path)
    \/ ~scanPluginInProcess(lastOp.path).ok
    \/ \A env \in LoadOutcomes :
          ~PluginInstance_load(PluginInstance(scanPluginInProcess(lastOp.path).info),
                               env).ret

C11Step ==
    (lastOp'.op = "loadPlugin" /\ ~lastOp'.ret)
        => /\ nextPluginId' = nextPluginId
           /\ loadedPlugins' = loadedPlugins
           /\ pluginChain' = pluginChain

C11_FailedLoadChangesNothing ==
    /\ []((lastOp.op = "loadPlugin" /\ C11Failing) => ~lastOp.ret)
    /\ [][C11Step]_vars

\* loadPlugin has just failed in PluginInstance::load, after the instance
\* was constructed
C11_Witness ==
    /\ lastOp.op = "loadPlugin"
    /\ ~lastOp.ret
    /\ lastOp.constructed

\* C12: a loadPlugin call on a path that is on the blacklist at the time of
\* the call, or whose scan leaves the descriptor's validated flag false,
\* fails without constructing a PluginInstance (so nothing of the plugin is
\* opened or called).
C12_BlacklistedNeverConstructed ==
    ( /\ lastOp.op = "loadPlugin"
      /\ (lastOp.blacklisted \/ ~scanPluginInProcess(lastOp.path).info.validated) )
    => (~lastOp.ret /\ ~lastOp.constructed)

\* loadPlugin has just been refused for a blacklisted file that would pass
\* validation and scan
C12_Witness ==
    /\ lastOp.op = "loadPlugin"
    /\ lastOp.blacklisted
    /\ lastOp.path \in blacklistedPlugins
    /\ validatePlugin(lastOp.path)
    /\ scanPluginInProcess(lastOp.path).ok
    /\ ~lastOp.constructed

\* C13: a load() call on an instance that is not Unloaded returns failure and
\* leaves the state as it was; a load() call on an Unloaded instance ends in
\* Loaded exactly when it returns success and in Error otherwise (never in
\* Loading), and when the plugin's initialization faults it ends in Error,
\* returns failure and the fault does not leave load().
C13_LoadOutcome ==
    lastOp.op = "load" =>
        /\ ~lastOp.escaped
        /\ IF lastOp.was # "Unloaded"
           THEN ~lastOp.ret /\ Instance.state = lastOp.was
           ELSE /\ Instance.state \in {"Loaded", "Error"}
                /\ lastOp.ret <=> Instance.state = "Loaded"
                /\ lastOp.arg \in {"fault", "faultOpen"} =>
                      (Instance.state = "Error" /\ ~lastOp.ret)

\* load() of an Unloaded VST2 instance has just met a fault of the plugin's
\* initialization
C13_Witness ==
    /\ lastOp.op = "load"
    /\ lastOp.was = "Unloaded"
    /\ lastOp.arg = "faultOpen"
    /\ Instance.info.type = "VST2"
    /\ Instance.state = "Error"
    /\ Instance.effect

\* C14: every unload() call returns with the instance Unloaded, whether or
\* not the plugin's cleanup faults, and an unload() call on an Unloaded
\* instance makes no call into the plugin.
C14_UnloadIdempotent ==
    lastOp.op = "unload" =>
        /\ ~lastOp.escaped
        /\ Instance.state = "Unloaded"
        /\ lastOp.was = "Unloaded" => ~lastOp.called

\* C15: once the state of an instance is Crashed, only unload() changes it.
C15Step ==
    (Instance.state = "Crashed" /\ lastOp'.op # "unload")
        => Instance'.state = "Crashed"

C15_CrashedAbsorbing == [][C15Step]_vars

\* C16: a processReplacing call on a bypassed instance enters no plugin code
\* and leaves pass-through in the buffers (every output channel that has an
\* input channel holds that input, every other output channel is zero, the
\* channels beyond the plugin's outputs are untouched); setBypass enters no
\* plugin code and sets the flag, which nothing else changes; a
\* processReplacing call on an Active, loaded instance that is not bypassed
\* enters the plugin.
C16Inv ==
    /\ (lastOp.op = "processReplacing" /\ lastOp.wasBypassed) =>
          /\ ~lastOp.called
          /\ \A ch \in Channels :
                outputs[ch] = IF ch - 1 < Instance.info.numOutputs
                              THEN IF ch - 1 < Instance.info.numInputs
                                   THEN lastOp.in[ch] ELSE 0
                              ELSE lastOp.pre[ch]
    /\ lastOp.op = "setBypass" =>
          /\ ~lastOp.called
          /\ Instance.bypassed = (lastOp.arg = "true")
    /\ ( /\ lastOp.op = "processReplacing"
         /\ ~lastOp.wasBypassed
         /\ lastOp.was = "Active"
         /\ lastOp.wasEffect ) => lastOp.called

C16Step == Instance'.bypassed # Instance.bypassed => lastOp'.op = "setBypass"

C16_BypassPassThrough == []C16Inv /\ [][C16Step]_vars

\* processReplacing has just run on a bypassed, Active instance with one
\* input and two outputs, from input buffers that differ from the outputs
C16_Witness ==
    /\ lastOp.op = "processReplacing"
    /\ lastOp.wasBypassed
    /\ lastOp.was = "Active"
    /\ lastOp.wasEffect
    /\ Instance.info.numInputs < Instance.info.numOutputs
    /\ lastOp.in # lastOp.pre
    /\ lastOp.pre # Silence
    /\ outputs # Silence

\* C17: for the chain of every state and every ID and position,
\* movePluginInChain leaves the chain as it is when the ID is not in it;
\* otherwise the result has the same length, the other IDs in their former
\* order, and the ID at newPosition when 0 <= newPosition <= length after
\* the removal, at the end for every other position.  Every
\* movePluginInChain step changes the chain in this way and nothing else.
C17Moved(chain, id, pos) ==
    LET c == MovedChain(chain, id, pos)
        Other(x) == x # id
        rest == SelectSeq(chain, Other)
    IN  IF ~InChain(chain, id)
        THEN c = chain
        ELSE /\ Len(c) = Len(chain)
             /\ SelectSeq(c, Other) = rest
             /\ IF pos >= 0 /\ pos <= Len(rest)
                THEN c[pos + 1] = id
                ELSE c[Len(c)] = id

C17Step ==
    (lastOp'.op = "movePluginInChain" /\ pluginChain' # pluginChain)
        => /\ lastOp'.hit
           /\ \E id \in Range(pluginChain), pos \in PositionArgs :
                 pluginChain' = MovedChain(pluginChain, id, pos)
           /\ loadedPlugins' = loadedPlugins

C18_HungScanFails ==
    (lastOp.op = "scanDirectory" /\ lastOp.ret) =>
        \A k \in DOMAIN pluginFiles :
            pluginFiles[k].hangs =>
                /\ \A n \in DOMAIN onPluginFound :
                      onPluginFound[n].path # pluginFiles[k].path
                /\ \A j \in DOMAIN activeJobs :
                      activeJobs[j].path # pluginFiles[k].path
                /\ \A m \in (k + 1)..Len(pluginFiles) :
                      \E n \in DOMAIN onProgress :
                          onProgress[n].path = pluginFiles[m].path

\* C19: when scanDirectory has returned, every candidate has been attempted
\* once and in order, onPluginFound has been called exactly once for every
\* candidate whose scan succeeds, never for a candidate whose scan fails,
\* and for nothing else.
C19_FailureIsLocal ==
    (lastOp.op = "scanDirectory" /\ lastOp.ret) =>
        /\ Len(onProgress) = Len(pluginFiles)
        /\ \A k \in DOMAIN pluginFiles :
              /\ onProgress[k].path = pluginFiles[k].path
              /\ onProgress[k].current = k
              /\ onProgress[k].total = Len(pluginFiles)
              /\ Cardinality({n \in DOMAIN onPluginFound :
                                 onPluginFound[n].path = pluginFiles[k].path})
                    = IF pluginFiles[k].path.image THEN 1 ELSE 0
        /\ \A n \in DOMAIN onPluginFound :
              /\ onPluginFound[n].validated
              /\ \E k \in DOMAIN pluginFiles :
                    pluginFiles[k].path = onPluginFound[n].path

\* scanDirectory has returned from a directory whose second candidate fails
\* its scan while the candidates before and after it succeed
C19_Witness ==
    /\ lastOp.op = "scanDirectory"
    /\ Len(pluginFiles) = 3
    /\ ~pluginFiles[2].path.image
    /\ Len(onPluginFound) = 2
    /\ Len(onProgress) = 3

\* C20: whenever no startAudio or stopAudio call is in progress and audio is
\* not running (stopAudio has returned, or audio was never started), there is
\* no audio thread and nothing is inside the audio callback; the callback
\* only ever runs on a live audio thread; and every stopAudio call that
\* waits in join() returns.
C20Inv ==
    /\ (ctlpc = "idle" /\ ~audioRunning) => (audioThread = "none" /\ rtpc = "idle")
    /\ rtpc # "idle" => audioThread = "running"

C20_StopJoinsThread ==
    /\ []C20Inv
    /\ (ctlpc = "stop.join") ~> (ctlpc = "idle")

\* stopAudio has returned after it was called while the audio thread was
\* inside the callback
C20_Witness ==
    /\ lastOp.op = "stopAudio"
    /\ lastOp.hit
    /\ lastOp.ret
    /\ ctlpc = "idle"
    /\ ~audioRunning
    /\ audioThread = "none"

\* C21: all bridge requests are serialized: no command line (INIT, LOAD,
\* UNLOAD or EXIT) is written to the command pipe while another thread's
\* request is between writing its command and finishing reading its response.
C21_RequestsSerialized == ~overlap

\* a request of a bridge method by thread t has returned
BridgeReturned(t, name) == bcall[t].op = name /\ bcall[t].done

\* the helper's answer to the LOAD that thread t's latest loadPlugin32 wrote
OwnAnswer(t) == answers[bcall[t].cmd]

\* C22: shutdown() sends EXIT, waits a bounded grace period and
\* force-terminates the helper if it has not exited: when shutdown() returns
\* the helper process is not running and the process and pipe handles are
\* null, whether or not the helper cooperated; a shutdown() that finds no
\* session writes nothing and changes nothing.
C22Step ==
    \A t \in Callers :
        /\ shutdown_begin(t) /\ bridgeProcess = "open"
              => (CanWrite => cmdPipe' = Append(cmdPipe, [op |-> "EXIT", n |-> sent + 1]))
        /\ shutdown_end(t)
              => /\ helper' # "running"
                 /\ bridgeProcess' = "null" /\ ~commandPipe' /\ ~dataPipe'
        /\ shutdown_begin(t) /\ bridgeProcess = "null"
              => /\ bridgeProcess' = "null" /\ ~commandPipe' /\ ~dataPipe'
                 /\ UNCHANGED <<helper, cmdPipe, sent, commandPipe, dataPipe>>
OnlyCaller(t) == \A u \in Callers \ {t} : bcall[u].op = "none"

\* C23: a loadPlugin32 whose LOAD gets a malformed or no response line
\* returns false, and the session stays usable: a loadPlugin32 on the same
\* session whose LOAD the helper answers with OK returns true.
C23_ProtocolErrorKeepsSession ==
    \A t \in Callers :
        BridgeReturned(t, "loadPlugin32") /\ bcall[t].wrote /\ OnlyCaller(t)
           => /\ OwnAnswer(t) \in {"ERR", "silent"} => ~bcall[t].ret
              /\ OwnAnswer(t) = "OK" => bcall[t].ret

\* C29: against a helper that answers every command with exactly one line,
\* the response line that a loadPlugin32 call reads and interprets is the
\* helper's answer to that same LOAD command, never the answer to an
\* earlier INIT, UNLOAD or LOAD.
C29_LoadReadsOwnAnswer ==
    \A t \in Callers :
        BridgeReturned(t, "loadPlugin32") /\ bcall[t].line # NoLine
        /\ OnlyCaller(t) /\ protocolKept
           => bcall[t].line.for = bcall[t].cmd

\* C24: the parent's interpretation of a scan worker's output reports
\* success if and only if the output contains a validated=true line and no
\* error= line; whenever it reports failure the resulting descriptor is not
\* marked validated.  (Stated for a descriptor that was not marked
\* validated before the call.)
C24_SuccessIffValidatedNoError ==
    scanResult.called /\ ~scanResult.before.validated
       => /\ scanResult.ret <=>
                /\ \E i \in DOMAIN scanResult.out :
                      scanResult.out[i] = [key |-> "validated", value |-> "true"]
                /\ \A i \in DOMAIN scanResult.out : scanResult.out[i].key # "error"
          /\ ~scanResult.ret => ~scanResult.info.validated

\* positions of scanEvents at which kind is reported for path
EventsOf(kind, path) ==
    {j \in DOMAIN scanEvents : scanEvents[j] = ScanEvent(kind, path)}

\* C25: scanDirectory reports progress exactly once per candidate file, with
\* currentIndex running 1..total in enumeration order and total equal to the
\* number of candidates; the progress report for a file precedes the scan
\* of, and any onPluginFound call for, that file; if the directory cannot be
\* enumerated no callback is invoked at all.
C25_ProgressPerCandidate ==
    lastOp.op = "scanDirectory" =>
        /\ onProgress = [k \in DOMAIN pluginFiles |->
                            [current |-> k, total |-> Len(pluginFiles),
                             path |-> pluginFiles[k].path]]
        /\ \A k \in DOMAIN pluginFiles :
              /\ Cardinality(EventsOf("progress", pluginFiles[k].path)) = 1
              /\ \A j \in EventsOf("scan", pluginFiles[k].path)
                          \cup EventsOf("found", pluginFiles[k].path) :
                    \E i \in EventsOf("progress", pluginFiles[k].path) : i < j
              /\ \A k2 \in DOMAIN pluginFiles :
                    k < k2 => \A i \in EventsOf("progress", pluginFiles[k].path),
                                 j \in EventsOf("progress", pluginFiles[k2].path) : i < j
        /\ Cardinality({j \in DOMAIN scanEvents : scanEvents[j].kind = "progress"})
              = Len(pluginFiles)
        /\ ~lastOp.ret => onProgress = <<>> /\ onPluginFound = <<>> /\ scanEvents = <<>>
\* scanDirectory has returned from a directory with at least two candidates,
\* one of them found and one not
C25_Witness ==
    /\ lastOp.op = "scanDirectory" /\ lastOp.ret
    /\ Len(pluginFiles) >= 2
    /\ Len(onProgress) = Len(pluginFiles)
    /\ \E j \in DOMAIN scanEvents : scanEvents[j].kind = "found"
    /\ Len(onPluginFound) < Len(pluginFiles)

\* C26: a file whose path is blacklisted never appears in the results of a
\* scan: scanPlugins drops every found descriptor whose path is on the
\* blacklist at the time it is found, and keeps the others in order.
C26Step ==
    (lastOp'.op = "scanPlugins" /\ blacklistedPlugins' = blacklistedPlugins)
       => /\ \A n \in DOMAIN foundPlugins' :
                foundPlugins'[n].path \notin blacklistedPlugins
          /\ \A n \in DOMAIN onPluginFound' :
                onPluginFound'[n].path \notin blacklistedPlugins
                   => \E m \in DOMAIN foundPlugins' : foundPlugins'[m] = onPluginFound'[n]
          /\ \A m \in DOMAIN foundPlugins' :
                \E n \in DOMAIN onPluginFound' : foundPlugins'[m] = onPluginFound'[n]
C26_BlacklistedNotInResults == [][C26Step]_vars
\* a scan has found a blacklisted file and another one, and kept the other
C26_Witness ==
    /\ lastOp.op = "scanPlugins"
    /\ \E n \in DOMAIN onPluginFound : onPluginFound[n].path \in blacklistedPlugins
    /\ foundPlugins # <<>>
    /\ \A m \in DOMAIN foundPlugins : foundPlugins[m].path \notin blacklistedPlugins
    /\ Len(foundPlugins) < Len(onPluginFound)

\* a startAudio call that has returned after the backend failed
StartFailed ==
    /\ lastOp.op = "startAudio"
    /\ ~lastOp.pending
    /\ ~lastOp.running
    /\ lastOp.arg # "WASAPI" \/ ~lastOp.initOk \/ ~lastOp.startOk

\* a step of startAudio taken while audio is running
C28Step ==
    (audioRunning /\ lastOp' # lastOp /\ lastOp'.op = "startAudio")
        => /\ lastOp'.ret
           /\ ~lastOp'.pending
           /\ UNCHANGED <<audioRunning, audioEngine, audioThread, audioClient>>

\* C28: when the backend fails to initialize or to start, or the driver type
\* is not WASAPI, startAudio returns false, and after it has returned audio
\* is not running, the host holds no engine and no audio thread exists;
\* startAudio called while audio is running returns true and leaves the
\* engine and its thread as they are
C28_StartFailureSurfaced ==
    /\ [](StartFailed => /\ ~lastOp.ret
                         /\ ~audioRunning
                         /\ ~audioEngine
                         /\ audioThread = "none")
    /\ [][C28Step]_vars

\* startAudio has returned after audioClient->Start() failed on an
\* initialized WASAPI engine whose thread had already been created
C28_Witness ==
    /\ StartFailed
    /\ lastOp.arg = "WASAPI"
    /\ lastOp.initOk
    /\ ~lastOp.startOk
    /\ ~lastOp.ret
    /\ audioThread = "none"

\* selectDevice returns in this step
SelectReturns ==
    /\ lastOp'.op = "selectDevice"
    /\ ~lastOp'.pending
    /\ lastOp' # lastOp

C27Step == SelectReturns => (EngineRunning' <=> lastOp'.running)

\* C27: when selectDevice returns, the engine is running exactly if it was
\* running when selectDevice was called
C27_SelectPreservesRunning == [][C27Step]_vars

\* the chain loop visits, in this step, a registered instance that is Loaded
\* and not bypassed
VisitsLoaded ==
    /\ rtpc = "loop"
    /\ rtidx <= Len(pluginChain)
    /\ visited' # visited
    /\ pluginChain[rtidx] \in DOMAIN loadedPlugins
    /\ loadedPlugins[pluginChain[rtidx]].state = "Loaded"
    /\ ~loadedPlugins[pluginChain[rtidx]].bypassed

\* no step of the host takes a registered instance from Loaded to Active
LoadedStaysLoaded ==
    [][\A id \in DOMAIN loadedPlugins :
          (loadedPlugins[id].state = "Loaded" /\ id \in DOMAIN loadedPlugins')
              => loadedPlugins'[id].state # "Active"]_vars

C30Step == VisitsLoaded => Len(calls') = Len(calls) + 1

PastStopAudio == hostpc \in {"shutdown.unloadAllPlugins", "shutdown.bridge32"}

C32Step ==
    /\ PastStopAudio => Len(calls') <= Len(calls)
    /\ (bcall'["ui"].op = "shutdown" /\ bcall["ui"].op # "shutdown")
           => (loadedPlugins = EmptyMap /\ pluginChain = <<>>)

\* C32: in shutdown() the audio thread is stopped and joined before
\* unloadAllPlugins() begins, the bridge is shut down only when the map and
\* the chain are empty, they are empty from then on, and from the return of
\* stopAudio() on no call of a plugin's processing routine is made
C32_ShutdownOrdered ==
    /\ [](PastStopAudio => /\ audioThread = "none"
                           /\ rtpc = "idle"
                           /\ ~audioRunning
                           /\ pluginMutex = "free")
    /\ [](hostpc = "shutdown.bridge32" => /\ loadedPlugins = EmptyMap
                                          /\ pluginChain = <<>>)
    /\ [][C32Step]_vars

\* shutdown() has stopped audio that was running, its thread is joined, and
\* unloadAllPlugins() is about to unload a chained plugin
C32_Witness ==
    /\ hostpc = "shutdown.unloadAllPlugins"
    /\ lastOp.op = "stopAudio"
    /\ lastOp.ret
    /\ pluginChain # <<>>
    /\ audioThread = "none"

\* shutdown() has returned: with a helper process that it had to end
C32_WitnessDone ==
    /\ hostpc = "shutdown.bridge32"
    /\ BridgeShutDown
    /\ bcall["ui"].wasOpen

\* a step in which an audio thread is created
ThreadCreated == audioThread' = "running" /\ audioThread # "running"

\* C33: an audio thread is created only when none exists, and whenever no
\* audio operation is in progress isAudioRunning() is true exactly if the
\* audio thread is alive
C33_OneThreadIffRunning ==
    /\ [][ThreadCreated => audioThread = "none"]_vars
    /\ [](ctlpc = "idle" => (audioRunning <=> audioThread = "running"))

\* the stream of the device client is stopped in this step
ClientStopped == clientStarted /\ ~clientStarted'

\* C34: the device client is stopped only when the audio thread has been
\* told to exit and has been joined
C34_JoinBeforeClientStop == [][ClientStopped => audioThread = "none"]_vars

\* the loop body is over and a device buffer had been obtained in it
CycleWithBufferOver == render.pc = "wait" /\ render.gets = 1

\* C35: a loop iteration that obtained a device buffer has released it once
\* when it is over, with the interleaved output of the callback in it if a
\* callback is set and with zeroes if none is; a buffer is held only inside
\* the iteration that obtained it
C35_BufferReleasedOnce ==
    /\ CycleWithBufferOver =>
           /\ render.releases = 1
           /\ ~render.held
           /\ render.callback => (render.fill = "callback"
                                   /\ render.data = Interleave(render.out))
           /\ ~render.callback => (render.fill = "silence"
                                    /\ render.data = SilentData)
    /\ render.held => render.pc \in {"fill", "release"}
    /\ render.pc = "wait" => render.releases = render.gets

\* an iteration without a callback has released its buffer filled with zeroes
C35_Witness ==
    /\ CycleWithBufferOver
    /\ ~render.callback
    /\ render.releases = 1
    /\ render.data = SilentData

\* an iteration has released the callback's non-silent output
C35_WitnessCallback ==
    /\ CycleWithBufferOver
    /\ render.callback
    /\ render.releases = 1
    /\ render.data # SilentData

\* the i-th job that a sweep found is over the deadline: the whole
\* milliseconds between its start and the sweep's clock reading are more
\* than MAX_PLUGIN_SCAN_TIME_MS
OverDeadline(sweep, i) == sweep.elapsed[i] > MAX_PLUGIN_SCAN_TIME_MS

\* the calls of a sweep that name a handle of the job
CallsOn(sweep, job, fn, handle) ==
    { c \in DOMAIN sweep.calls : sweep.calls[c] = [fn |-> fn, handle |-> handle] }

\* a sweep removed the jobs over the deadline and no other: what it left are
\* the other jobs, unchanged and in their order; each removed job's process
\* was terminated once and then both of its handles were closed once; no
\* call was made on a handle of a job that it left
SweepExact(sweep) ==
    LET Kept == { i \in DOMAIN sweep.jobs : ~OverDeadline(sweep, i) }
    IN  /\ Len(sweep.left) = Cardinality(Kept)
        /\ \A i \in Kept :
              sweep.left[Cardinality({ k \in Kept : k <= i })] = sweep.jobs[i]
        /\ \A i \in DOMAIN sweep.jobs :
              LET job == sweep.jobs[i]
                  term == CallsOn(sweep, job, "TerminateProcess", job.processHandle)
                  closeProc == CallsOn(sweep, job, "CloseHandle", job.processHandle)
                  closePipe == CallsOn(sweep, job, "CloseHandle", job.pipeHandle)
              IN  IF i \in Kept
                  THEN term = {} /\ closeProc = {} /\ closePipe = {}
                  ELSE /\ Cardinality(term) = 1
                       /\ Cardinality(closeProc) = 1
                       /\ Cardinality(closePipe) = 1
                       /\ \A t \in term, c \in closeProc : t < c
        /\ Len(sweep.calls) = 3 * (Len(sweep.jobs) - Cardinality(Kept))

\* C36: terminateHungProcesses removes from activeJobs exactly the jobs whose
\* elapsed time is over the deadline, terminates their workers and closes
\* their handles, and leaves every younger job as it was; a scanDirectory
\* that listed its directory runs it after every 10th candidate and once
\* more after the last one, each sweep on the jobs that the one before left
C36_ReaperExact ==
    (lastOp.op = "scanDirectory" /\ lastOp.ret) =>
        /\ Len(reaper) = Len(pluginFiles) \div ReapEvery + 1
        /\ \A k \in 1..(Len(reaper) - 1) :
              /\ reaper[k].after = ReapEvery * k
              /\ ~reaper[k].final
              /\ reaper[k + 1].jobs = reaper[k].left
        /\ reaper[Len(reaper)].after = Len(pluginFiles)
        /\ reaper[Len(reaper)].final
        /\ activeJobs = reaper[Len(reaper)].left
        /\ \A k \in DOMAIN reaper : SweepExact(reaper[k])

\* a scan of more than ten candidates is over: the sweep after the tenth
\* removed a job that was over the deadline and left one that was not, and
\* the last sweep, at a later clock reading, removed that one
C36_Witness ==
    /\ lastOp.op = "scanDirectory" /\ lastOp.ret
    /\ Len(pluginFiles) > ReapEvery
    /\ Len(reaper) >= 2
    /\ Len(reaper[1].jobs) = 2
    /\ Len(reaper[1].left) = 1
    /\ reaper[1].calls # <<>>
    /\ reaper[Len(reaper)].jobs # <<>>
    /\ reaper[Len(reaper)].left = <<>>
    /\ activeJobs = <<>>

\* a sweep has left a job that was exactly at the deadline
C36_WitnessAtDeadline ==
    /\ lastOp.op = "scanDirectory" /\ lastOp.ret
    /\ \E k \in DOMAIN reaper : \E i \in DOMAIN reaper[k].jobs :
          /\ reaper[k].elapsed[i] = MAX_PLUGIN_SCAN_TIME_MS
          /\ \E j \in DOMAIN reaper[k].left : reaper[k].left[j] = reaper[k].jobs[i]

\* C37: the state of an instance changes only along the lifecycle edges:
\* Error is entered only by a load() that went through Loading, Crashed is
\* entered only from Loaded or Active, bypassed or not, and Active is
\* entered only from Loaded
C37Step ==
    LET from == Instance.state
        to == Instance'.state
    IN  from # to =>
           /\ to = "Error" => (from = "Unloaded" /\ lastOp'.op = "load")
           /\ to = "Crashed" => from \in {"Loaded", "Active"}
           /\ to = "Active" => from = "Loaded"

C37_LifecycleEdges == [][C37Step]_vars

\* thread t begins a loadPlugin32 call in this step while the bridge holds
\* no command pipe
LoadWithoutSession(t) ==
    /\ bpc[t] = "idle"
    /\ ~commandPipe
    /\ bcall'[t].op = "loadPlugin32"
    /\ bcall'[t] # bcall[t] \/ bpc'[t] # bpc[t]

\* thread t returns from shutdown() in this step
ShutdownReturns(t) ==
    /\ bcall'[t].op = "shutdown" /\ bcall'[t].done
    /\ bcall'[t] # bcall[t]

\* EnhancedVSTHost::initialize has called the bridge's initialize()
HostInitializes ==
    lastOp'.op = "initialize" /\ lastOp'.called /\ bcall'["ui"].op = "initialize"

C38Step ==
    /\ \A t \in Callers :
          LoadWithoutSession(t) =>
             /\ bcall'[t].done /\ ~bcall'[t].ret /\ ~bcall'[t].wrote
             /\ bpc'[t] = "idle"
             /\ bridgeMutex' = bridgeMutex
             /\ cmdPipe' = cmdPipe /\ respPipe' = respPipe
    /\ \A t \in Callers :
          ShutdownReturns(t) => ~commandPipe' /\ ~dataPipe' /\ bridgeProcess' = "null"
    /\ HostInitializes =>
          /\ lastOp'.ret
          /\ ~bcall'["ui"].ret => (commandPipe' = commandPipe /\ dataPipe' = dataPipe
                                    /\ bridgeProcess' = bridgeProcess)

\* C38: while the bridge has no helper session, because the helper could
\* not be started or because shutdown() has returned, a loadPlugin32 call
\* returns false in one step without writing a command and without going
\* on to read the pipe; shutdown() returns with all three handles null; a
\* host initialize() whose bridge initialization failed returns true and
\* leaves the handles as they were
C38_NoSessionFailsFast ==
    /\ [][C38Step]_vars
    /\ [](\A t \in Callers : bpc[t] = "load.recv" => bcall[t].wrote)

\* the host was initialized with a bridge that could not be started, and a
\* loadPlugin32 call of the worker thread has returned false without a write
C38_Witness ==
    /\ lastOp.op = "initialize" /\ lastOp.called /\ lastOp.ret
    /\ bcall["ui"].op = "initialize" /\ ~bcall["ui"].ret
    /\ sent = 0
    /\ bcall["worker"].op = "loadPlugin32"
    /\ bcall["worker"].done /\ ~bcall["worker"].ret /\ ~bcall["worker"].wrote
    /\ ~bcall["worker"].wasOpen

\* the bridge was started and shut down, and a loadPlugin32 call has
\* returned false without a write
C38_WitnessAfterShutdown ==
    /\ bcall["ui"].op = "shutdown" /\ bcall["ui"].done /\ bcall["ui"].wasOpen
    /\ bridgeProcess = "null" /\ ~commandPipe
    /\ bcall["worker"].op = "loadPlugin32"
    /\ bcall["worker"].done /\ ~bcall["worker"].ret /\ ~bcall["worker"].wrote
    /\ ~bcall["worker"].wasOpen

\* the smaller of two numbers
Smaller(a, b) == IF a < b THEN a ELSE b

\* C39: the ring of recent errors holds at most 1000 entries, which are the
\* most recently logged ones in logging order, and getRecentErrors(count)
\* with a count that is not negative returns the last min(count, size) of
\* them in that order
C39_RecentErrorsRing ==
    /\ Len(logger.recentErrors) = Smaller(logger.logged, MaxRecentErrors)
    /\ \A i \in DOMAIN logger.recentErrors :
          logger.recentErrors[i].timestamp
             = logger.logged - Len(logger.recentErrors) + i
    /\ (logger.asked /\ logger.count >= 0) =>
          /\ Len(logger.errors) = Smaller(logger.count, Len(logger.recentErrors))
          /\ \A i \in DOMAIN logger.errors :
                logger.errors[i]
                   = logger.recentErrors[Len(logger.recentErrors)
                                           - Len(logger.errors) + i]

\* more than 1000 errors were logged, the oldest have been dropped, and
\* getRecentErrors(100) has returned the last 100 of the 1000 kept
C39_Witness ==
    /\ logger.logged > MaxRecentErrors
    /\ Len(logger.recentErrors) = MaxRecentErrors
    /\ logger.recentErrors[1].timestamp > 1
    /\ logger.asked /\ logger.count = 100
    /\ Len(logger.errors) = 100
    /\ logger.errors[100].timestamp = logger.logged

\* getRecentErrors was asked for more entries than the ring holds
C39_WitnessAll ==
    /\ logger.asked /\ logger.count > Len(logger.recentErrors)
    /\ logger.recentErrors # <<>>
    /\ logger.errors = logger.recentErrors
====
